---- MODULE Spec2Model ----
(***************************************************************************)
(* A model of the afplay playback engine: the three producing sources      *)
(* (preloaded file, streamed file with its decoder actor, dasp synth) and  *)
(* the sample accurate mixer which schedules and sums them.                *)
(*                                                                         *)
(* Samples are integers.  Sample number j of the data of source id is      *)
(* BufferSample(id, j), so that position and origin of every sample in the *)
(* mixer output can be told.  Float gains (volume, fader ramps) are not    *)
(* part of the model: only the fader's state machine is.                   *)
(*                                                                         *)
(* Durations are counted in sample frames, seek positions in half frames   *)
(* (ticks), so that a position between two frames can be asked for.        *)
(***************************************************************************)
EXTENDS Integers, Sequences, FiniteSets, TLC

\* ------------------------------------------------------------------------
\* Bounds of the model
\* ------------------------------------------------------------------------

\* longest file buffer / generator signal / decoded stream, in frames
MaxFrames == 2
\* largest repeat count that is not "forever"
MaxRepeat == 1
\* longest fade-out duration, in frames
MaxFade == 1
\* longest output slice handed to a source's write in the source level spec
MaxWrite == 2
\* number of control messages (Seek, Stop) sent to one source
MaxCtrl == 2
\* capacity of the streamed source's ring buffer is 2^RingLog2 samples
RingLog2 == 1
\* largest channel count of a source and of the mixer
MaxChannels == 2
\* the mixer's temp_out buffer holds 2^TempOutLog2 samples
TempOutLog2 == 1
\* number of sources played through the mixer
MaxSources == 2
\* callbacks are run while the output position is below MaxTime frames
MaxTime == 3
\* largest output buffer of a callback, in frames
MaxBuf == 3
\* number of stop and removal requests made to the mixer
MaxRequests == 2
\* number of sources played where sources are stopped and removed
MaxStoppedSources == 1
\* number of sources constructed where the player's interface is called
MaxPlayerSources == 2
\* number of calls of the player's interface apart from successful plays
MaxCalls == 2
\* samples a source which is left alone is asked for
MaxPlayed == 8
\* number of sources played where the order of the playing list is looked at
MaxListed == 3
\* Stop messages the mixer sends to one source
MaxStopsSent == 2
\* Position events a source reports
MaxPositions == 2

\* events the user's status channel holds before a send to it blocks
UserChanCapacity == 1

\* frames which the buffers of a ResampledSource hold
ResampleFrames == 1

\* ------------------------------------------------------------------------
\* Helpers
\* ------------------------------------------------------------------------

Min(a, b) == IF a < b THEN a ELSE b

Max(a, b) == IF a > b THEN a ELSE b

RECURSIVE Pow2(_)
Pow2(n) == IF n = 0 THEN 1 ELSE 2 * Pow2(n - 1)

\* FilePlaybackOptions::repeat_forever: usize::MAX, here a number above
\* every finite repeat count of the model
RepeatForever == 255

\* sample j of the decoded data of the source with the given id
BufferSample(id, j) == (IF id = 1 THEN 1 ELSE Pow2(4 * (id - 1))) * (j + 1)

\* the samples from..from+n-1 of a source
SampleRun(id, from, n) == [k \in 1..n |-> BufferSample(id, from + k - 1)]

\* ------------------------------------------------------------------------
\* Volume fader (utils/fader.rs)
\* ------------------------------------------------------------------------

FaderNew == [state |-> "Stopped", target |-> 1, left |-> 0]

FaderStartFadeIn(f, frames) ==
    [state |-> "FadingIn", target |-> 1, left |-> frames]

FaderStartFadeOut(f, frames) ==
    [state |-> "FadingOut", target |-> 0, left |-> frames]

\* process(buf): ramps over the frames of buf and finishes when the target
\* volume is reached
FaderProcess(f, frames) ==
    IF f.state \in {"FadingIn", "FadingOut"}
    THEN IF frames >= f.left
         THEN [f EXCEPT !.state = "Finished", !.left = 0]
         ELSE [f EXCEPT !.left = @ - frames]
    ELSE f

\* ------------------------------------------------------------------------
\* Resampler (utils/resampler.rs), input rate = output rate:
\* process(input, output) -> (input_consumed, output_written)
\* ------------------------------------------------------------------------

ResamplerProcess(inLen, outLen) == Min(inLen, outLen)

\* ------------------------------------------------------------------------
\* Status events
\* ------------------------------------------------------------------------

\* AudioFilePlaybackStatusEvent::Stopped.  atEnd is a history field: whether
\* the source had delivered all of its data when the event was emitted.
StoppedEvent(id, exhausted, atEnd) ==
    [type |-> "Stopped", id |-> id, exhausted |-> exhausted, atEnd |-> atEnd]

\* ------------------------------------------------------------------------
\* PreloadedFileSource (source/file/preloaded.rs)
\* ------------------------------------------------------------------------

\* with_buffer: buffer names the shared, read-only Arc<Vec<f32>> the source
\* plays (sample j of buffer b is BufferSample(b, j)); fade_out: -1 is None,
\* else Some(duration in frames)
PreloadedWithBuffer(id, buffer, cc, frames, repeat, fade_in, fade_out) ==
    [ kind |-> "preloaded",
      file_id |-> id,
      buffer |-> buffer,
      buffer_channel_count |-> cc,
      buffer_len |-> frames * cc,
      buffer_pos |-> 0,
      repeat |-> repeat,
      fade_out_duration |-> fade_out,
      volume_fader |-> IF fade_in > 0 THEN FaderStartFadeIn(FaderNew, fade_in)
                       ELSE FaderNew,
      playback_finished |-> FALSE,
      msgs |-> << >> ]

\* new: the file is decoded into a buffer of its own, named as the source
PreloadedNew(id, cc, frames, repeat, fade_in, fade_out) ==
    PreloadedWithBuffer(id, id, cc, frames, repeat, fade_in, fade_out)

\* faulty variant of PreloadedClone: a copy of the source's fields, its
\* position and its message channel included
PreloadedCloneCopies(s, id, repeat, fade_in, fade_out) ==
    [s EXCEPT !.file_id = id, !.repeat = repeat]

\* clone(options): with_buffer on the source's buffer
PreloadedClone(s, id, repeat, fade_in, fade_out) ==
    PreloadedWithBuffer(id, s.buffer, s.buffer_channel_count,
                        s.buffer_len \div s.buffer_channel_count,
                        repeat, fade_in, fade_out)

\* faulty variant of PreloadedSeekPos: the position is not clamped
PreloadedSeekPosUnclamped(s, ticks) == (ticks * s.buffer_channel_count) \div 2

\* faulty variant of PreloadedSeekPos: the position is taken from where the
\* source is
PreloadedSeekPosRelative(s, ticks) ==
    Min(s.buffer_pos + ((ticks * s.buffer_channel_count) \div 2), s.buffer_len)

\* Seek(position): position in ticks of half a frame
PreloadedSeekPos(s, ticks) ==
    Min((ticks * s.buffer_channel_count) \div 2, s.buffer_len)

\* faulty variant of PreloadedOnMsg: a Seek revives a source that has finished
PreloadedOnMsgSeekRevives(s, msg) ==
    CASE msg.type = "Seek" ->
           [s EXCEPT !.buffer_pos = PreloadedSeekPos(s, msg.arg),
                     !.playback_finished = FALSE]
      [] msg.type = "Stop" ->
           IF s.fade_out_duration > 0
           THEN [s EXCEPT !.volume_fader =
                     FaderStartFadeOut(s.volume_fader, s.fade_out_duration)]
           ELSE [s EXCEPT !.playback_finished = TRUE]
      [] OTHER -> s

PreloadedOnMsg(s, msg) ==
    CASE msg.type = "Seek" ->
           [s EXCEPT !.buffer_pos = PreloadedSeekPos(s, msg.arg)]
      [] msg.type = "Stop" ->
           IF s.fade_out_duration > 0
           THEN [s EXCEPT !.volume_fader =
                     FaderStartFadeOut(s.volume_fader, s.fade_out_duration)]
           ELSE [s EXCEPT !.playback_finished = TRUE]
      [] OTHER -> s

RECURSIVE PreloadedDrainMsgs(_)
PreloadedDrainMsgs(s) ==
    IF s.msgs = << >> THEN s
    ELSE PreloadedDrainMsgs(
             PreloadedOnMsg([s EXCEPT !.msgs = Tail(s.msgs)], Head(s.msgs)))

\* faulty variant of PreloadedWriteLoop: the last repeat is not played
RECURSIVE PreloadedWriteLoopEarly(_, _)
PreloadedWriteLoopEarly(r, outLen) ==
    IF Len(r.out) >= outLen THEN r
    ELSE
      LET s == r.s
          n == ResamplerProcess(s.buffer_len - s.buffer_pos, outLen - Len(r.out))
          pos == s.buffer_pos + n
          out == r.out \o SampleRun(s.buffer, s.buffer_pos, n)
      IN IF pos >= s.buffer_len
         THEN IF s.repeat > 1
              THEN PreloadedWriteLoopEarly(
                     [s |-> [s EXCEPT !.buffer_pos = 0,
                                      !.repeat = IF @ # RepeatForever
                                                 THEN @ - 1 ELSE @],
                      out |-> out], outLen)
              ELSE [s |-> [s EXCEPT !.buffer_pos = pos], out |-> out]
         ELSE PreloadedWriteLoopEarly(
                [s |-> [s EXCEPT !.buffer_pos = pos], out |-> out], outLen)

\* the output loop: r = [s, out], out the samples written so far
RECURSIVE PreloadedWriteLoop(_, _)
PreloadedWriteLoop(r, outLen) ==
    IF Len(r.out) >= outLen THEN r
    ELSE
      LET s == r.s
          n == ResamplerProcess(s.buffer_len - s.buffer_pos, outLen - Len(r.out))
          fader == FaderProcess(s.volume_fader, n \div s.buffer_channel_count)
          pos == s.buffer_pos + n
          out == r.out \o SampleRun(s.buffer, s.buffer_pos, n)
          end_of_file == pos >= s.buffer_len
      IN IF end_of_file
         THEN IF s.repeat > 0
              THEN PreloadedWriteLoop(
                     [s |-> [s EXCEPT !.volume_fader = fader,
                                      !.buffer_pos = 0,
                                      !.repeat = IF @ # RepeatForever
                                                 THEN @ - 1 ELSE @],
                      out |-> out], outLen)
              ELSE [s |-> [s EXCEPT !.volume_fader = fader, !.buffer_pos = pos],
                    out |-> out]
         ELSE PreloadedWriteLoop(
                [s |-> [s EXCEPT !.volume_fader = fader, !.buffer_pos = pos],
                 out |-> out], outLen)

\* AudioFilePlaybackStatusEvent::Position
PositionEvent(id, position) ==
    [type |-> "Position", id |-> id, position |-> position]

\* the Position event of a write; report is should_report_pos()
PositionEvents(report, id, position) ==
    IF report THEN << PositionEvent(id, position) >> ELSE << >>

\* faulty variant of PreloadedWriteReporting: the position is reported
\* after the end of playback
PreloadedWriteReportsLate(s0, outLen, report) ==
    LET s1 == PreloadedDrainMsgs(s0)
    IN IF s1.playback_finished
       THEN [s |-> s1, out |-> << >>, events |-> << >>]
       ELSE
         LET r == PreloadedWriteLoop([s |-> s1, out |-> << >>], outLen)
             s2 == r.s
             end_of_file == s2.buffer_pos >= s2.buffer_len
             fade_out_completed == /\ s2.volume_fader.state = "Finished"
                                   /\ s2.volume_fader.target = 0
         IN IF end_of_file \/ fade_out_completed
            THEN [s |-> [s2 EXCEPT !.playback_finished = TRUE],
                  out |-> r.out,
                  events |-> << StoppedEvent(s2.file_id,
                                             s2.buffer_pos >= s2.buffer_len,
                                             end_of_file) >>
                             \o PositionEvents(report, s2.file_id,
                                               s2.buffer_pos)]
            ELSE [s |-> s2, out |-> r.out,
                  events |-> PositionEvents(report, s2.file_id, s2.buffer_pos)]

\* write(output): [s, out, events], out the written samples (its length is
\* the returned count), events the status events sent; report is what
\* should_report_pos() returns in this call
PreloadedWriteReporting(s0, outLen, report) ==
    LET s1 == PreloadedDrainMsgs(s0)
    IN IF s1.playback_finished
       THEN [s |-> s1, out |-> << >>, events |-> << >>]
       ELSE
         LET r == PreloadedWriteLoop([s |-> s1, out |-> << >>], outLen)
             s2 == r.s
             end_of_file == s2.buffer_pos >= s2.buffer_len
             fade_out_completed == /\ s2.volume_fader.state = "Finished"
                                   /\ s2.volume_fader.target = 0
         IN IF end_of_file \/ fade_out_completed
            THEN [s |-> [s2 EXCEPT !.playback_finished = TRUE],
                  out |-> r.out,
                  events |-> PositionEvents(report, s2.file_id, s2.buffer_pos)
                             \o << StoppedEvent(s2.file_id,
                                                s2.buffer_pos >= s2.buffer_len,
                                                end_of_file) >>]
            ELSE [s |-> s2, out |-> r.out,
                  events |-> PositionEvents(report, s2.file_id, s2.buffer_pos)]

\* write of a source which reports no positions (playback_pos_emit_rate is
\* None)
PreloadedWrite(s0, outLen) == PreloadedWriteReporting(s0, outLen, FALSE)

PreloadedIsExhausted(s) == s.playback_finished

\* ------------------------------------------------------------------------
\* DaspSynthSource (source/synth/dasp.rs): a mono generator signal
\* ------------------------------------------------------------------------

SynthNew(id, frames) ==
    [ kind |-> "synth",
      playback_id |-> id,
      signal_len |-> frames,
      playback_pos |-> 0,
      stop_fader |-> FaderNew,
      playback_finished |-> FALSE,
      msgs |-> << >> ]

\* write(output): at most one playback message is received per call
SynthWrite(s0, outLen) ==
    LET got == s0.msgs # << >>
        msg == IF got THEN Head(s0.msgs) ELSE [type |-> "None", arg |-> 0]
        stop_playing == got /\ msg.type = "Stop" /\ msg.arg = 0
        s1 == [s0 EXCEPT
                 !.msgs = IF got THEN Tail(@) ELSE @,
                 !.stop_fader = IF got /\ msg.type = "Stop" /\ msg.arg > 0
                                THEN FaderStartFadeOut(@, msg.arg) ELSE @]
    IN IF s1.playback_finished
       THEN [s |-> s1, out |-> << >>, events |-> << >>]
       ELSE
         LET written == Min(outLen, s1.signal_len - s1.playback_pos)
             s2 == [s1 EXCEPT !.stop_fader = FaderProcess(@, written),
                              !.playback_pos = @ + written]
             out == SampleRun(s1.playback_id, s1.playback_pos, written)
             is_exhausted == written = 0
             fadeout_completed == s2.stop_fader.state = "Finished"
         IN IF stop_playing \/ is_exhausted \/ fadeout_completed
            THEN LET s3 == [s2 EXCEPT !.playback_finished = TRUE]
                 IN [s |-> s3, out |-> out,
                     events |-> << StoppedEvent(s3.playback_id,
                                                s3.playback_finished,
                                                s3.playback_pos >= s3.signal_len) >>]
            ELSE [s |-> s2, out |-> out, events |-> << >>]

SynthIsExhausted(s) == s.playback_finished

\* ------------------------------------------------------------------------
\* StreamedFileSource and its decoder actor (source/file/streamed.rs)
\* ------------------------------------------------------------------------

\* StreamedFileWorker::default_buffer: capacity of the ring buffer
RingCapacity == Pow2(RingLog2)

\* SharedFileWorkerState; total_samples -1 is u64::MAX (not yet known)
SharedNew ==
    [ position |-> 0,
      total_samples |-> -1,
      end_of_file |-> FALSE,
      is_playing |-> TRUE,
      is_fading_out |-> FALSE,
      fade_out_duration |-> 0 ]

\* the consumer side; pc and written keep the place inside a write call
\* between the read of the ring buffer and the loads of the shared flags
StreamedNew(id, cc) ==
    [ kind |-> "streamed",
      file_id |-> id,
      channel_count |-> cc,
      stop_fader |-> FaderNew,
      playback_finished |-> FALSE,
      pc |-> "idle",
      written |-> 0 ]

\* StreamedFileWorker::new; the decoder delivers packets of one frame of a
\* file of the given length; act is what the actor loop does next
WorkerNew(id, cc, frames, repeat) ==
    [ file_id |-> id,
      channel_count |-> cc,
      file_len |-> frames * cc,
      dec_pos |-> 0,
      input_packet |-> << >>,
      stw_start |-> 0,
      stw_end |-> 0,
      samples_written |-> 0,
      is_reading |-> FALSE,
      repeat |-> repeat,
      act |-> "Continue" ]

\* AudioDecoder::read_packet: the next packet, << >> at the end of the file
DecoderReadPacket(w) ==
    SampleRun(w.file_id, w.dec_pos, Min(w.channel_count, w.file_len - w.dec_pos))

\* AudioDecoder::seek: the frame reached, -1 when the position lies
\* outside of the file
DecoderSeek(w, ticks) ==
    IF (ticks \div 2) * w.channel_count < w.file_len THEN ticks \div 2 ELSE -1

\* handlers are given and return x = [w, sh, ring, mailbox]
ReadMsg == [type |-> "Read", arg |-> 0]

\* faulty variant of WorkerOnStop: Stop(0) is taken as a fade-out as well
WorkerOnStopNeverShutsDown(x, fadeout) ==
    [x EXCEPT !.sh.fade_out_duration = fadeout,
              !.sh.is_fading_out = TRUE,
              !.w.act = "Continue"]

WorkerOnStop(x, fadeout) ==
    IF fadeout = 0
    THEN [x EXCEPT !.w.is_reading = FALSE,
                   !.sh.is_playing = FALSE,
                   !.w.act = "Shutdown"]
    ELSE [x EXCEPT !.sh.fade_out_duration = fadeout,
                   !.sh.is_fading_out = TRUE,
                   !.w.act = "Continue"]

WorkerOnSeek(x, ticks) ==
    LET timestamp == DecoderSeek(x.w, ticks)
        position == timestamp * x.w.channel_count
    IN IF timestamp >= 0
       THEN [x EXCEPT
               !.w.stw_start = IF x.w.is_reading THEN 0 ELSE @,
               !.w.stw_end = IF x.w.is_reading THEN 0 ELSE @,
               !.mailbox = IF x.w.is_reading THEN @ ELSE Append(@, ReadMsg),
               !.w.dec_pos = position,
               !.w.samples_written = position,
               !.sh.position = position,
               !.ring = << >>,
               !.w.act = "Continue"]
       ELSE [x EXCEPT !.w.act = "Continue"]

\* faulty variant of WorkerReadStep: a full ring buffer loses the leftover
WorkerReadStepDropsLeftover(x) ==
    LET w == x.w
    IN IF w.stw_start < w.stw_end
       THEN \* flush what is left of the last packet into the ring buffer
            IF Len(x.ring) < RingCapacity
            THEN LET written == Min(RingCapacity - Len(x.ring),
                                    w.stw_end - w.stw_start)
                 IN [x EXCEPT
                       !.ring = @ \o SubSeq(w.input_packet, w.stw_start + 1,
                                            w.stw_start + written),
                       !.w.samples_written = @ + written,
                       !.w.stw_start = @ + written,
                       !.w.is_reading = TRUE,
                       !.mailbox = Append(@, ReadMsg),
                       !.w.act = "Continue"]
            ELSE [x EXCEPT !.w.stw_start = w.stw_end,
                           !.w.is_reading = FALSE, !.w.act = "WaitOr"]
       ELSE LET packet == DecoderReadPacket(w)
            IN IF packet # << >>
               THEN [x EXCEPT
                       !.w.input_packet = packet,
                       !.w.dec_pos = @ + Len(packet),
                       !.w.stw_start = 0,
                       !.w.stw_end = Len(packet),
                       !.w.is_reading = TRUE,
                       !.mailbox = Append(@, ReadMsg),
                       !.w.act = "Continue"]
               ELSE IF w.repeat > 0
               THEN [x EXCEPT
                       !.w.repeat = IF @ # RepeatForever THEN @ - 1 ELSE @,
                       !.w.dec_pos = 0,
                       !.w.samples_written = 0,
                       !.w.stw_start = 0,
                       !.w.stw_end = 0,
                       !.sh.position = 0,
                       !.w.is_reading = TRUE,
                       !.mailbox = Append(@, ReadMsg),
                       !.w.act = "Continue"]
               ELSE [x EXCEPT
                       !.w.is_reading = FALSE,
                       !.sh.end_of_file = TRUE,
                       !.sh.total_samples = w.samples_written,
                       !.w.act = "Continue"]

\* on_read after the load of is_playing: the leftover of the last packet is
\* flushed, or the next packet is read
WorkerReadStep(x) ==
    LET w == x.w
    IN IF w.stw_start < w.stw_end
       THEN \* flush what is left of the last packet into the ring buffer
            IF Len(x.ring) < RingCapacity
            THEN LET written == Min(RingCapacity - Len(x.ring),
                                    w.stw_end - w.stw_start)
                 IN [x EXCEPT
                       !.ring = @ \o SubSeq(w.input_packet, w.stw_start + 1,
                                            w.stw_start + written),
                       !.w.samples_written = @ + written,
                       !.w.stw_start = @ + written,
                       !.w.is_reading = TRUE,
                       !.mailbox = Append(@, ReadMsg),
                       !.w.act = "Continue"]
            ELSE [x EXCEPT !.w.is_reading = FALSE, !.w.act = "WaitOr"]
       ELSE LET packet == DecoderReadPacket(w)
            IN IF packet # << >>
               THEN [x EXCEPT
                       !.w.input_packet = packet,
                       !.w.dec_pos = @ + Len(packet),
                       !.w.stw_start = 0,
                       !.w.stw_end = Len(packet),
                       !.w.is_reading = TRUE,
                       !.mailbox = Append(@, ReadMsg),
                       !.w.act = "Continue"]
               ELSE IF w.repeat > 0
               THEN [x EXCEPT
                       !.w.repeat = IF @ # RepeatForever THEN @ - 1 ELSE @,
                       !.w.dec_pos = 0,
                       !.w.samples_written = 0,
                       !.w.stw_start = 0,
                       !.w.stw_end = 0,
                       !.sh.position = 0,
                       !.w.is_reading = TRUE,
                       !.mailbox = Append(@, ReadMsg),
                       !.w.act = "Continue"]
               ELSE [x EXCEPT
                       !.w.is_reading = FALSE,
                       !.sh.end_of_file = TRUE,
                       !.sh.total_samples = w.samples_written,
                       !.w.act = "Continue"]

WorkerOnRead(x) ==
    IF ~x.sh.is_playing
    THEN [x EXCEPT !.w.act = "Shutdown"]
    ELSE WorkerReadStep(x)

\* Actor::handle
WorkerHandle(x, msg) ==
    CASE msg.type = "Seek" -> WorkerOnSeek(x, msg.arg)
      [] msg.type = "Read" -> WorkerOnRead(x)
      [] msg.type = "Stop" -> WorkerOnStop(x, msg.arg)

\* write, first part: x = [c, sh, ring]; the result adds out, the samples
\* read from the ring buffer
StreamedReadRing(x, outLen) ==
    IF x.c.playback_finished
    THEN [c |-> x.c, sh |-> x.sh, ring |-> x.ring, out |-> << >>]
    ELSE LET written == Min(outLen, Len(x.ring))
         IN [c |-> [x.c EXCEPT !.pc = "mid", !.written = written],
             sh |-> [x.sh EXCEPT !.position = @ + written],
             ring |-> SubSeq(x.ring, written + 1, Len(x.ring)),
             out |-> SubSeq(x.ring, 1, written)]

\* write, second part: the fade-out, the Position event when
\* should_report_pos(position) says so, the end of playback and its event
StreamedFinishWriteReporting(x, report) ==
    LET c == x.c
        written == c.written
        is_stopping == x.sh.is_fading_out
        fader1 == IF is_stopping /\ c.stop_fader.state = "Stopped"
                  THEN FaderStartFadeOut(c.stop_fader, x.sh.fade_out_duration)
                  ELSE c.stop_fader
        fader2 == IF is_stopping
                  THEN FaderProcess(fader1, written \div c.channel_count)
                  ELSE fader1
        is_playing == x.sh.is_playing
        is_exhausted == written = 0 /\ x.sh.end_of_file
        fadeout_completed == is_stopping /\ fader2.state = "Finished"
        c1 == [c EXCEPT !.stop_fader = fader2, !.pc = "idle", !.written = 0]
    IN IF ~is_playing \/ is_exhausted \/ fadeout_completed
       THEN [c |-> [c1 EXCEPT !.playback_finished = TRUE],
             sh |-> [x.sh EXCEPT !.is_playing = FALSE],
             events |-> PositionEvents(report, c.file_id, x.sh.position)
                        \o << StoppedEvent(c.file_id, is_exhausted,
                                           x.sh.end_of_file /\ x.ring = << >>) >>]
       ELSE [c |-> c1, sh |-> x.sh,
             events |-> PositionEvents(report, c.file_id, x.sh.position)]

\* the second part of the write of a source which reports no positions
StreamedFinishWrite(x) == StreamedFinishWriteReporting(x, FALSE)

StreamedIsExhausted(c) == c.playback_finished

\* ------------------------------------------------------------------------
\* MixedSource (source/mixed.rs).  The sources it plays are preloaded file
\* sources which have the mixer's channel count and sample rate, so that
\* the converter chain around them is the identity.
\* ------------------------------------------------------------------------

\* PLAYING_EVENTS_CAPACITY: the capacity playing_sources is created with,
\* 1024 in the code, here one less than the sources which are played where
\* the playing list is looked at
PLAYING_EVENTS_CAPACITY == MaxListed - 1

\* BUFFER_SIZE: length of temp_out in samples, 2^TempOutLog2 in the model
BUFFER_SIZE == Pow2(TempOutLog2)

\* u64::MAX, here a number above every sample count of the model
U64_MAX == 1073741823

\* MixedPlayingSource; stop_time -1 is None.  History fields: stops_sent,
\* how often the mixer sent Stop to the source; stop_handled_at, the position
\* of the callback which handled the last StopSource; asked_end, the end (as
\* a sample position of the output timeline) of the last write request made
\* to the source before a Stop was sent to it.
MixedPlayingSource(id, source, sample_time) ==
    [ is_active |-> TRUE,
      playback_id |-> id,
      source |-> source,
      start_time |-> sample_time,
      stop_time |-> -1,
      stops_sent |-> 0,
      stop_handled_at |-> -1,
      asked_end |-> 0 ]

\* MixedSourceMsg
AddSourceMsg(id, source, sample_time) ==
    [type |-> "AddSource", playback_id |-> id, source |-> source,
     sample_time |-> sample_time]

StopSourceMsg(id, sample_time) ==
    [type |-> "StopSource", playback_id |-> id, sample_time |-> sample_time]

RemoveAllSourcesMsg == [type |-> "RemoveAllSources"]

RemoveAllPendingSourcesMsg == [type |-> "RemoveAllPendingSources"]

\* the playback ids of a list of playing sources, as handed to the drop
\* channel
DropEvents(list) == [i \in 1..Len(list) |-> list[i].playback_id]

\* the entries of a list at the indices in keep, in their order
RECURSIVE SelectEntries(_, _)
SelectEntries(list, keep) ==
    IF list = << >> THEN << >>
    ELSE LET front == SelectEntries(SubSeq(list, 1, Len(list) - 1), keep)
         IN IF Len(list) \in keep THEN Append(front, list[Len(list)])
            ELSE front

\* faulty variant of RemoveMatchingSources: the removed entries are not
\* handed to the drop channel
RemoveMatchingSourcesSilent(m, matching) ==
    [m EXCEPT !.playing = SelectEntries(m.playing,
                                        (1..Len(m.playing)) \ matching)]

\* remove_matching_sources: m = [playing, drop, ...], matching the indices
\* of the entries for which match_fn is true
RemoveMatchingSources(m, matching) ==
    [m EXCEPT !.playing = SelectEntries(m.playing,
                                        (1..Len(m.playing)) \ matching),
              !.drop = @ \o DropEvents(SelectEntries(m.playing, matching))]

\* remove_all_sources
RemoveAllSources(m) ==
    [m EXCEPT !.playing = << >>, !.drop = @ \o DropEvents(m.playing)]

\* StopSource: the first entry with the playback id gets the stop time
SetStopTime(playing, id, sample_time, pos_in_frames) ==
    LET hits == { i \in 1..Len(playing) : playing[i].playback_id = id }
    IN IF hits = {} THEN playing
       ELSE LET first == CHOOSE i \in hits : \A j \in hits : i <= j
            IN [playing EXCEPT ![first].stop_time = sample_time,
                               ![first].stop_handled_at = pos_in_frames]

\* one event of the queue; m = [playing, drop, got_new_sources]
MixedOnEvent(m, event, pos_in_frames) ==
    CASE event.type = "AddSource" ->
           [m EXCEPT !.got_new_sources = TRUE,
                     !.playing = Append(@, MixedPlayingSource(
                         event.playback_id, event.source, event.sample_time))]
      [] event.type = "StopSource" ->
           [m EXCEPT !.playing =
                         SetStopTime(@, event.playback_id, event.sample_time,
                                     pos_in_frames)]
      [] event.type = "RemoveAllPendingSources" ->
           RemoveMatchingSources(m,
               { i \in 1..Len(m.playing) :
                   m.playing[i].start_time > pos_in_frames })
      [] event.type = "RemoveAllSources" ->
           RemoveAllSources(m)

RECURSIVE MixedProcessEvents(_, _, _)
MixedProcessEvents(m, queue, pos_in_frames) ==
    IF queue = << >> THEN m
    ELSE MixedProcessEvents(MixedOnEvent(m, Head(queue), pos_in_frames),
                            Tail(queue), pos_in_frames)

\* faulty variant of InsertByStartTime: an entry is put before the entries
\* of the same start time
RECURSIVE InsertByStartTimeBefore(_, _)
InsertByStartTimeBefore(sorted, p) ==
    IF sorted = << >> THEN << p >>
    ELSE IF sorted[Len(sorted)].start_time < p.start_time
         THEN Append(sorted, p)
         ELSE Append(InsertByStartTimeBefore(
                         SubSeq(sorted, 1, Len(sorted) - 1), p),
                     sorted[Len(sorted)])

\* sort_by start_time: a stable sort
RECURSIVE InsertByStartTime(_, _)
InsertByStartTime(sorted, p) ==
    IF sorted = << >> THEN << p >>
    ELSE IF sorted[Len(sorted)].start_time <= p.start_time
         THEN Append(sorted, p)
         ELSE Append(InsertByStartTime(SubSeq(sorted, 1, Len(sorted) - 1), p),
                     sorted[Len(sorted)])

RECURSIVE SortByStartTime(_)
SortByStartTime(list) ==
    IF list = << >> THEN << >>
    ELSE InsertByStartTime(SortByStartTime(SubSeq(list, 1, Len(list) - 1)),
                           list[Len(list)])

\* frames_until_source_starts
FramesUntilSourceStarts(start_time, pos_in_frames) ==
    IF start_time > pos_in_frames THEN start_time - pos_in_frames ELSE 0

\* faulty variant of StartOffset: a source which starts within the buffer
\* writes from the begin of the buffer
StartOffsetNone(start_time, pos_in_frames, cc) == 0

\* the offset in samples at which a source starts to write in this buffer
StartOffset(start_time, pos_in_frames, cc) ==
    FramesUntilSourceStarts(start_time, pos_in_frames) * cc

\* samples_until_stop before the stop check
SamplesUntilStop(stop_time, source_time, cc) ==
    IF stop_time >= 0 /\ stop_time >= source_time
    THEN (stop_time - source_time) * cc
    ELSE U64_MAX

\* to_write: the length of the next request to the source
ToWrite(outLen, total_written, samples_until_stop) ==
    Min(Min(outLen - total_written, samples_until_stop), BUFFER_SIZE)

\* output[total_written..] += temp_out[..written]
AddInto(out, total_written, samples) ==
    [k \in 1..Len(out) |->
        IF k > total_written /\ k <= total_written + Len(samples)
        THEN out[k] + samples[k - total_written]
        ELSE out[k]]

\* history: the ids whose samples were added to each output sample
NoteMixed(mixed, total_written, n, id) ==
    [k \in 1..Len(mixed) |->
        IF k > total_written /\ k <= total_written + n
        THEN mixed[k] \cup {id}
        ELSE mixed[k]]

\* the Stop control message of send_stop
SendStopTo(source, send_stop) ==
    IF send_stop
    THEN [source EXCEPT !.msgs = Append(@, [type |-> "Stop", arg |-> 0])]
    ELSE source

\* the write of a played source, a preloaded file or a mono synth (the
\* mixer of the model plays a synth where its own layout is mono)
WriteOf(source, outLen) ==
    IF source.kind = "synth" THEN SynthWrite(source, outLen)
    ELSE PreloadedWrite(source, outLen)

\* source.is_exhausted() of a played source
ExhaustedOf(source) ==
    IF source.kind = "synth" THEN SynthIsExhausted(source)
    ELSE PreloadedIsExhausted(source)

\* the 'source loop of entry i from total_written on;
\* st = [playing, out, events, max_written, produced, mixed, visited];
\* visited is history: the ids of the entries the 'all_sources loop ran
RECURSIVE MixedRunSource(_, _, _, _, _)

\* the rest of one iteration: r is the result of the source's write
MixedAfterWrite(st, i, total_written, pos_in_frames, cc, send_stop, to_write, r) ==
    IF ExhaustedOf(r.s)
    THEN [st EXCEPT
            !.max_written = Max(@, total_written),
            !.events = @ \o r.events,
            !.produced = AddInto(@, total_written, r.out),
            !.playing[i].source = r.s,
            !.playing[i].stops_sent = IF send_stop THEN @ + 1 ELSE @,
            !.playing[i].asked_end =
                IF send_stop \/ st.playing[i].stops_sent > 0 THEN @
                ELSE pos_in_frames * cc + total_written + to_write,
            !.playing[i].is_active = FALSE]
    ELSE MixedRunSource(
           [st EXCEPT
              !.events = @ \o r.events,
              !.produced = AddInto(@, total_written, r.out),
              !.playing[i].source = r.s,
              !.playing[i].stops_sent = IF send_stop THEN @ + 1 ELSE @,
              !.playing[i].asked_end =
                  IF send_stop \/ st.playing[i].stops_sent > 0 THEN @
                  ELSE pos_in_frames * cc + total_written + to_write,
              !.out = AddInto(@, total_written, r.out),
              !.mixed = NoteMixed(@, total_written, Len(r.out),
                                  st.playing[i].playback_id)],
           i, total_written + Len(r.out), pos_in_frames, cc)

\* one iteration, given samples_until_stop as first computed: it is zero
\* when the stop is due, and the Stop message is sent before the write
MixedIteration(st, i, total_written, pos_in_frames, cc, until_stop) ==
    MixedAfterWrite(st, i, total_written, pos_in_frames, cc, until_stop = 0,
        ToWrite(Len(st.out), total_written,
                IF until_stop = 0 THEN U64_MAX ELSE until_stop),
        WriteOf(
            SendStopTo(st.playing[i].source, until_stop = 0),
            ToWrite(Len(st.out), total_written,
                    IF until_stop = 0 THEN U64_MAX ELSE until_stop)))

MixedRunSource(st, i, total_written, pos_in_frames, cc) ==
    IF total_written >= Len(st.out)
    THEN [st EXCEPT !.max_written = Max(@, total_written)]
    ELSE MixedIteration(st, i, total_written, pos_in_frames, cc,
             SamplesUntilStop(st.playing[i].stop_time,
                              pos_in_frames + (total_written \div cc), cc))

\* the 'all_sources loop from entry i on
RECURSIVE MixedRunAll(_, _, _, _)
MixedRunAll(st, i, pos_in_frames, cc) ==
    IF i > Len(st.playing) THEN st
    ELSE IF /\ FramesUntilSourceStarts(st.playing[i].start_time,
                                       pos_in_frames) > 0
            /\ FramesUntilSourceStarts(st.playing[i].start_time,
                                       pos_in_frames) >= Len(st.out) \div cc
         THEN st
         ELSE MixedRunAll(
                MixedRunSource(
                    [st EXCEPT !.visited = Append(@, st.playing[i].playback_id)],
                    i,
                    StartOffset(st.playing[i].start_time, pos_in_frames, cc),
                    pos_in_frames, cc),
                i + 1, pos_in_frames, cc)

\* faulty variant of MixedReturn: the largest count a source wrote
MixedReturnMaxWritten(outLen, max_written) == max_written

\* the returned count of a write which ran the playing sources: the
\* output's length, not the largest count a source wrote
MixedReturn(outLen, max_written) == outLen

\* the end of write: st the result of the loops, drop the drop channel
MixedFinish(st, drop, listed) ==
    [playing |-> SelectEntries(st.playing,
                     { i \in 1..Len(st.playing) : st.playing[i].is_active }),
     drop |-> drop \o DropEvents(SelectEntries(st.playing,
                     { i \in 1..Len(st.playing) : ~st.playing[i].is_active })),
     events |-> st.events,
     out |-> st.out,
     ret |-> MixedReturn(Len(st.out), st.max_written),
     listed |-> listed,
     produced |-> st.produced,
     mixed |-> st.mixed,
     rendered |-> st.visited]

\* write after the events: m = [playing, drop, got_new_sources] with the
\* list sorted
MixedRender(m, output, pos_in_frames, cc) ==
    IF m.playing = << >>
    THEN [playing |-> << >>, drop |-> m.drop, events |-> << >>,
          out |-> output, ret |-> 0, listed |-> 0,
          produced |-> [k \in 1..Len(output) |-> 0],
          mixed |-> [k \in 1..Len(output) |-> {}],
          rendered |-> << >>]
    ELSE MixedFinish(
           MixedRunAll([playing |-> m.playing,
                        out |-> [k \in 1..Len(output) |-> 0],
                        events |-> << >>,
                        max_written |-> 0,
                        produced |-> [k \in 1..Len(output) |-> 0],
                        mixed |-> [k \in 1..Len(output) |-> {}],
                        visited |-> << >>],
                       1, pos_in_frames, cc),
           m.drop, Len(m.playing))

\* faulty variant of MixedSort: the list is left as the events left it
MixedSortNever(m) == m

\* the list sorted when new sources were added
MixedSort(m) ==
    IF m.got_new_sources
    THEN [m EXCEPT !.playing = SortByStartTime(@)]
    ELSE m

\* MixedSource::write.  m = [playing, queue, drop], output the buffer as
\* handed in.  The result: [playing, drop, events, out, ret, listed,
\* produced, mixed, rendered]: out the buffer afterwards, ret the returned
\* count, listed the length of the list after the events; produced, mixed
\* and rendered are history: per output sample the sum of what the sources
\* wrote for it and the ids of the sources added into it, and the ids of
\* the entries the 'all_sources loop ran, in the order it ran them.
MixedWrite(m, output, pos_in_frames, cc) ==
    MixedRender(
        MixedSort(MixedProcessEvents(
            [playing |-> m.playing, drop |-> m.drop,
             got_new_sources |-> FALSE], m.queue, pos_in_frames)),
        output, pos_in_frames, cc)

\* MixedSource::is_exhausted
MixedIsExhausted == FALSE

\* ------------------------------------------------------------------------
\* State
\* ------------------------------------------------------------------------

VARIABLES
    src,        \* source level spec: the source (streamed: its consumer side)
    shared,     \* streamed: SharedFileWorkerState
    worker,     \* streamed: StreamedFileWorker
    mailbox,    \* streamed: the actor's message channel
    ring,       \* streamed: the ring buffer
    events,     \* the playback status channel: every event sent so far
    last,       \* the last operation and, for a write, the returned count
    ctrlSent,   \* number of control messages sent so far
    stopSent,   \* history: a Stop message was sent to the source
    channel_count,    \* MixedSource: channel count of the mixer and sink
    playing_sources,  \* MixedSource: the list of MixedPlayingSource
    event_queue,      \* MixedSource: the MixedSourceMsg not yet handled
    drop_chan,        \* the playback ids handed to the drop channel
    sink_pos,         \* frame position of the next output callback
    cb,               \* the last output callback: buffer, result, history
    nextId,           \* unique_usize_id: the next playback id
    playing_map,      \* AudioFilePlayer::playing_sources: the known ids
    handled,          \* status events the player's message thread handled
    registry,         \* history: start and length of the sources played
    result,           \* the last call made, its result, the events seen then
    stop_all,         \* stop_all_sources in progress: the ids still to stop
    forwarded,        \* status events forwarded to the user's channel
    drop_recv,        \* drop events the message thread received and dropped
    dying,            \* ids whose entry write still holds after the drop event
    freed_by,         \* history: the thread which released a source last
    mixer_open,       \* the mixer's event queue still has its receiver
    allocs,           \* history: the sources constructed, in allocation order
    stops_by_player,  \* history: the stop_source calls which returned Ok
    played,           \* history: what a file source left alone has played
    clone,            \* a clone made of the preloaded source src
    decodes,          \* history: how often an AudioDecoder was created
    prev_write,       \* history: the last write where it is kept
    user_chan,        \* the user's status channel: the events sent to it
    lock              \* the Mutex of the player's map and the threads at it

auxVars == << clone, decodes, prev_write, user_chan, lock >>

srcVars == << src, shared, worker, mailbox, ring, last, stopSent, auxVars >>

plyVars == << result, stop_all, forwarded, drop_recv, dying, freed_by,
              mixer_open, allocs, stops_by_player, played >>

\* the variables of the mixer and the player but the history of what a
\* source left alone has played
engineVars == << channel_count, playing_sources, event_queue, drop_chan,
                 sink_pos, cb, nextId, playing_map, handled, registry,
                 result, stop_all, forwarded, drop_recv, dying, freed_by,
                 mixer_open, allocs, stops_by_player >>

mixVars == << channel_count, playing_sources, event_queue, drop_chan,
              sink_pos, cb, nextId, playing_map, handled, registry, plyVars >>

vars == << src, shared, worker, mailbox, ring, events, last, ctrlSent,
           stopSent, channel_count, playing_sources, event_queue, drop_chan,
           sink_pos, cb, nextId, playing_map, handled, registry, result,
           stop_all, forwarded, drop_recv, dying, freed_by, mixer_open,
           allocs, stops_by_player, played, clone, decodes, prev_write,
           user_chan, lock >>

\* nobody holds or awaits the lock of the player's map: call is the call of
\* the control thread which holds it, msg the place of the message thread
LockFree ==
    [holder |-> "none", call |-> [op |-> "none", id |-> 0], msg |-> "idle"]

\* no clone is made of a source, no history is kept of its writes
NoAux ==
    /\ clone = [kind |-> "none"]
    /\ decodes = 0
    /\ prev_write = [kind |-> "none"]
    /\ user_chan = << >>
    /\ lock = LockFree

\* the player's variables before its first call
NoPlayer ==
    /\ result = [op |-> "none", id |-> 0, arg |-> 0, ret |-> "none", seen |-> 0]
    /\ stop_all = [pc |-> "idle", ids |-> {}, snapshot |-> {}]
    /\ forwarded = 0
    /\ drop_recv = 0
    /\ dying = {}
    /\ freed_by = {}
    /\ mixer_open = TRUE
    /\ allocs = << >>
    /\ stops_by_player = << >>

\* the mixer's variables where no mixer runs
NoMixer ==
    /\ channel_count = 1
    /\ playing_sources = << >>
    /\ event_queue = << >>
    /\ drop_chan = << >>
    /\ sink_pos = 0
    /\ cb = [time |-> 0, out |-> << >>, ret |-> 0, listed |-> 0,
             produced |-> << >>, mixed |-> << >>]
    /\ nextId = 1
    /\ playing_map = {}
    /\ handled = 0
    /\ registry = << >>
    /\ NoPlayer

\* the single source's variables where the mixer owns the sources
NoSource ==
    /\ src = [kind |-> "none"]
    /\ shared = << >>
    /\ worker = << >>
    /\ mailbox = << >>
    /\ ring = << >>
    /\ last = [op |-> "new", ret |-> 0]
    /\ stopSent = FALSE
    /\ NoAux

\* AudioSource::is_exhausted of the three producing sources
IsExhausted(s) ==
    CASE s.kind = "preloaded" -> PreloadedIsExhausted(s)
      [] s.kind = "synth" -> SynthIsExhausted(s)
      [] s.kind = "streamed" -> StreamedIsExhausted(s)

RepeatCounts == (0..MaxRepeat) \cup {RepeatForever}

\* ------------------------------------------------------------------------
\* Source level specification: one source, its writes and control messages
\* ------------------------------------------------------------------------

InitSourceCommon ==
    /\ events = << >>
    /\ last = [op |-> "new", ret |-> 0]
    /\ ctrlSent = 0
    /\ stopSent = FALSE
    /\ NoAux

InitPreloaded ==
    /\ \E cc \in 1..MaxChannels, frames \in 1..MaxFrames, repeat \in RepeatCounts,
          fade_in \in {0, 1}, fade_out \in (-1)..MaxFade :
          src = PreloadedNew(1, cc, frames, repeat, fade_in, fade_out)
    /\ shared = SharedNew
    /\ worker = [WorkerNew(1, 1, 0, 0) EXCEPT !.act = "Shutdown"]
    /\ mailbox = << >>
    /\ ring = << >>

InitSynth ==
    /\ \E frames \in 1..MaxFrames : src = SynthNew(1, frames)
    /\ shared = SharedNew
    /\ worker = [WorkerNew(1, 1, 0, 0) EXCEPT !.act = "Shutdown"]
    /\ mailbox = << >>
    /\ ring = << >>

\* FileSource::new: the actor is spawned and kick-started with a Read
InitStreamed ==
    /\ \E cc \in 1..MaxChannels, frames \in 1..MaxFrames, repeat \in RepeatCounts :
          /\ src = StreamedNew(1, cc)
          /\ worker = WorkerNew(1, cc, frames, repeat)
    /\ shared = SharedNew
    /\ mailbox = << ReadMsg >>
    /\ ring = << >>

\* no history is kept of what the source has played
NotPlayed ==
    played = [samples |-> 0, wraps |-> 0, repeat |-> 0, in_order |-> TRUE]

InitSource ==
    /\ InitSourceCommon
    /\ NoMixer
    /\ NotPlayed
    /\ (InitPreloaded \/ InitSynth \/ InitStreamed)

\* AudioSource::write of a preloaded or synth source
SourceWrite ==
    /\ src.kind \in {"preloaded", "synth"}
    /\ \E outLen \in 1..MaxWrite :
          LET r == IF src.kind = "preloaded" THEN PreloadedWrite(src, outLen)
                   ELSE SynthWrite(src, outLen)
          IN /\ src' = r.s
             /\ events' = events \o r.events
             /\ last' = [op |-> "write", ret |-> Len(r.out)]
    /\ UNCHANGED << shared, worker, mailbox, ring, ctrlSent, stopSent,
                    auxVars, mixVars >>

\* StreamedFileSource::write up to the read of the ring buffer: the whole
\* call when playback has finished
StreamedBegin(outLen) ==
    /\ src.kind = "streamed"
    /\ src.pc = "idle"
    /\ LET r == StreamedReadRing([c |-> src, sh |-> shared, ring |-> ring],
                                 outLen)
       IN /\ src' = r.c
          /\ shared' = r.sh
          /\ ring' = r.ring
          /\ last' = IF src.playback_finished
                     THEN [op |-> "write", ret |-> 0]
                     ELSE [op |-> "other", ret |-> 0]
    /\ UNCHANGED << worker, mailbox, events, ctrlSent, stopSent, auxVars,
                    engineVars >>

\* the first part of a write with an output slice of some length
StreamedWriteBegin ==
    /\ \E outLen \in 1..MaxWrite : StreamedBegin(outLen)
    /\ UNCHANGED played

\* StreamedFileSource::write from the loads of the shared flags on
StreamedWriteEnd ==
    /\ src.kind = "streamed"
    /\ src.pc = "mid"
    /\ LET r == StreamedFinishWrite([c |-> src, sh |-> shared, ring |-> ring])
       IN /\ src' = r.c
          /\ shared' = r.sh
          /\ events' = events \o r.events
          /\ last' = [op |-> "write", ret |-> src.written]
    /\ UNCHANGED << worker, mailbox, ring, ctrlSent, stopSent,
                    auxVars, mixVars >>

\* the actor handles a message, rest being what its channel holds then
WorkerRun(msg, rest) ==
    /\ LET r == WorkerHandle([w |-> worker, sh |-> shared, ring |-> ring,
                              mailbox |-> rest], msg)
       IN /\ worker' = r.w
          /\ shared' = r.sh
          /\ ring' = r.ring
          /\ mailbox' = r.mailbox
    /\ last' = [op |-> "other", ret |-> 0]
    /\ UNCHANGED << src, events, ctrlSent, stopSent, auxVars, engineVars >>

\* the actor loop receives a message and handles it
WorkerReceive ==
    /\ src.kind = "streamed"
    /\ worker.act \in {"Continue", "WaitOr"}
    /\ mailbox # << >>
    /\ WorkerRun(Head(mailbox), Tail(mailbox))
    /\ UNCHANGED played

\* the actor loop waits on a full ring buffer, no message arrives in time
\* and it handles the timeout message Read
WorkerTimeout ==
    /\ src.kind = "streamed"
    /\ worker.act = "WaitOr"
    /\ mailbox = << >>
    /\ WorkerRun(ReadMsg, mailbox)
    /\ UNCHANGED played

\* a control message reaches the source's playback message channel: the
\* source's own channel, for a streamed source the actor's
Deliver(msg) ==
    IF src.kind = "streamed"
    THEN /\ mailbox' = Append(mailbox, msg)
         /\ UNCHANGED src
    ELSE /\ src' = [src EXCEPT !.msgs = Append(@, msg)]
         /\ UNCHANGED mailbox

\* the seek positions tried, in ticks: up to the end of the longest data;
\* the decoder of a streamed source seeks to whole frames
SeekPositions(s) ==
    IF s.kind = "streamed"
    THEN {2 * f : f \in 0..MaxFrames}
    ELSE 0..(2 * MaxFrames)

\* AudioFilePlayer::seek_source: files only
SendSeek ==
    /\ ctrlSent < MaxCtrl
    /\ src.kind \in {"preloaded", "streamed"}
    /\ \E ticks \in SeekPositions(src) : Deliver([type |-> "Seek", arg |-> ticks])
    /\ ctrlSent' = ctrlSent + 1
    /\ last' = [op |-> "other", ret |-> 0]
    /\ UNCHANGED << shared, worker, ring, events, stopSent,
                    auxVars, mixVars >>

\* AudioFilePlayer::stop_source, MixedSource's send_stop: the message of a
\* streamed or synth source carries the fade-out duration
SendStop ==
    /\ ctrlSent < MaxCtrl
    /\ \E fadeout \in 0..MaxFade :
          /\ src.kind = "preloaded" => fadeout = 0
          /\ Deliver([type |-> "Stop", arg |-> fadeout])
    /\ ctrlSent' = ctrlSent + 1
    /\ stopSent' = TRUE
    /\ last' = [op |-> "other", ret |-> 0]
    /\ UNCHANGED << shared, worker, ring, events,
                    auxVars, mixVars >>

NextSource ==
    \/ SourceWrite
    \/ StreamedWriteBegin
    \/ StreamedWriteEnd
    \/ WorkerReceive
    \/ WorkerTimeout
    \/ SendSeek
    \/ SendStop

SpecSource == InitSource /\ [][NextSource]_vars

\* the Stopped events sent with a playback id, as indices of the channel
StoppedEvents(id) ==
    { i \in 1..Len(events) : events[i].type = "Stopped" /\ events[i].id = id }

\* ------------------------------------------------------------------------
\* A preloaded source which is neither sought nor stopped, with a history
\* of what it has played
\* ------------------------------------------------------------------------

InitRepeat ==
    /\ InitSourceCommon
    /\ NoMixer
    /\ InitPreloaded
    /\ played = [samples |-> 0, wraps |-> 0, repeat |-> src.repeat,
                 in_order |-> TRUE]

\* how often buffer_pos went back to 0 in a write which found the source s,
\* wrote n samples and left the source s2: once for every end of the buffer
\* passed, but for the end at which the source stays
WrapsInWrite(s, s2, n) ==
    IF s2.buffer_pos >= s2.buffer_len
    THEN ((s.buffer_pos + n) \div s.buffer_len) - 1
    ELSE (s.buffer_pos + n) \div s.buffer_len

\* AudioSource::write of the preloaded source
PreloadedPlay ==
    /\ src.kind = "preloaded"
    /\ played.samples < MaxPlayed
    /\ \E outLen \in 1..MaxWrite :
          LET r == PreloadedWrite(src, outLen)
          IN /\ src' = r.s
             /\ events' = events \o r.events
             /\ last' = [op |-> "write", ret |-> Len(r.out)]
             /\ played' = [played EXCEPT
                              !.samples = @ + Len(r.out),
                              !.wraps = @ + WrapsInWrite(src, r.s, Len(r.out))]
    /\ UNCHANGED << shared, worker, mailbox, ring, ctrlSent, stopSent,
                    channel_count, playing_sources, event_queue, drop_chan,
                    sink_pos, cb, nextId, playing_map, handled, registry,
                    result, stop_all, forwarded, drop_recv, dying, freed_by,
                    mixer_open, allocs, stops_by_player, auxVars >>

SpecRepeat == InitRepeat /\ [][PreloadedPlay]_vars

\* C20: a preloaded source with repeat = k below usize::MAX which is neither
\* sought nor stopped plays its buffer k + 1 times: repeat goes down by one
\* with each of the k wraps of buffer_pos to 0, and the source finishes, with
\* Stopped{exhausted = true}, when and only when it has written k + 1 times
\* its buffer.  With repeat = usize::MAX the counter stays and the source
\* does not finish.
C20_PlaysRepeatPlusOneTimes ==
    IF played.repeat # RepeatForever
    THEN /\ src.repeat = played.repeat - played.wraps
         /\ played.wraps <= played.repeat
         /\ played.samples <= (played.repeat + 1) * src.buffer_len
         /\ IsExhausted(src) <=>
               played.samples = (played.repeat + 1) * src.buffer_len
         /\ IsExhausted(src) =>
               /\ played.wraps = played.repeat
               /\ \E i \in StoppedEvents(1) : events[i].exhausted
         /\ ~IsExhausted(src) => StoppedEvents(1) = {}
    ELSE /\ src.repeat = RepeatForever
         /\ ~IsExhausted(src)
         /\ StoppedEvents(1) = {}

\* C20, witness: a source with the largest finite repeat count and a buffer
\* of several samples has played to its end
C20_Witness ==
    /\ played.repeat = MaxRepeat
    /\ played.wraps = MaxRepeat
    /\ src.buffer_len > 1
    /\ IsExhausted(src)
    /\ played.samples = (MaxRepeat + 1) * src.buffer_len

\* ------------------------------------------------------------------------
\* A streamed source which is neither sought nor stopped, with a history of
\* what its consumer has read and of the decoder's rewinds
\* ------------------------------------------------------------------------

InitStream ==
    /\ InitSourceCommon
    /\ NoMixer
    /\ InitStreamed
    /\ played = [samples |-> 0, wraps |-> 0, repeat |-> worker.repeat,
                 in_order |-> TRUE]

\* the samples the consumer took from the ring buffer in a step
ReadFromRing(before, after) == SubSeq(before, 1, Len(before) - Len(after))

\* the samples continue the passes over the decoded content read so far
ContinuesPasses(samples, n, file_len) ==
    \A k \in 1..Len(samples) :
        samples[k] = BufferSample(1, (n + k - 1) % file_len)

\* on_read at the end of the file with repeats left: input.seek(ZERO)
Rewinds(w, w2) == IF w.dec_pos >= w.file_len /\ w2.dec_pos = 0 THEN 1 ELSE 0

\* StreamedFileSource::write up to the read of the ring buffer
StreamedPlayBegin ==
    /\ played.samples < MaxPlayed
    /\ \E outLen \in 1..MaxWrite : StreamedBegin(outLen)
    /\ played' = [played EXCEPT
                     !.samples = @ + Len(ReadFromRing(ring, ring')),
                     !.in_order = @ /\ ContinuesPasses(ReadFromRing(ring, ring'),
                                          played.samples, worker.file_len)]

\* the actor loop receives a message and handles it
DecoderReceive ==
    /\ worker.act \in {"Continue", "WaitOr"}
    /\ mailbox # << >>
    /\ WorkerRun(Head(mailbox), Tail(mailbox))
    /\ played' = [played EXCEPT !.wraps = @ + Rewinds(worker, worker')]

\* the actor loop waits on a full ring buffer and handles the timeout's Read
DecoderTimeout ==
    /\ worker.act = "WaitOr"
    /\ mailbox = << >>
    /\ WorkerRun(ReadMsg, mailbox)
    /\ played' = [played EXCEPT !.wraps = @ + Rewinds(worker, worker')]

NextStream ==
    \/ StreamedPlayBegin
    \/ StreamedWriteEnd
    \/ DecoderReceive
    \/ DecoderTimeout

SpecStream == InitStream /\ [][NextStream]_vars

\* the samples of repeat + 1 passes over the decoded content
AllPasses == (played.repeat + 1) * worker.file_len

\* C21: a streamed source with repeat = k below usize::MAX which is neither
\* sought nor stopped delivers k + 1 full passes of the decoded content to
\* its consumer: the decoder rewinds to 0 exactly k times and sets
\* end_of_file only at the end of pass k + 1, what the consumer reads are the
\* passes in order, and the consumer emits its one Stopped{exhausted = true}
\* only after it has read the last sample.  With repeat = usize::MAX
\* end_of_file is never set.
C21_StreamedPlaysRepeatPlusOneTimes ==
    IF played.repeat # RepeatForever
    THEN /\ worker.repeat = played.repeat - played.wraps
         /\ played.wraps <= played.repeat
         /\ shared.end_of_file =>
               /\ played.wraps = played.repeat
               /\ worker.dec_pos = worker.file_len
         /\ played.in_order
         /\ played.samples <= AllPasses
         /\ Cardinality(StoppedEvents(1)) <= 1
         /\ \A i \in StoppedEvents(1) :
               events[i].exhausted /\ played.samples = AllPasses
         /\ IsExhausted(src) => played.samples = AllPasses
    ELSE /\ worker.repeat = RepeatForever
         /\ ~shared.end_of_file
         /\ StoppedEvents(1) = {}

\* ------------------------------------------------------------------------
\* Properties of the sources
\* ------------------------------------------------------------------------

\* C1: a source emits the Stopped event of its PlaybackId exactly once:
\* never twice, and never zero times once it has stopped producing audio
\* (is exhausted), also when it is stopped with no or a zero fade-out.
C1_StoppedExactlyOnce ==
    /\ Cardinality(StoppedEvents(1)) <= 1
    /\ IsExhausted(src) => Cardinality(StoppedEvents(1)) = 1

\* C3: the Stopped event carries exhausted = TRUE when the source ran to
\* its natural end (no Stop was ever sent to it), and exhausted = FALSE when
\* it ended because of a Stop request while it still had data to deliver.
C3_ExhaustedFlagTellsNaturalEnd ==
    \A i \in StoppedEvents(1) :
        /\ ~stopSent => events[i].exhausted
        /\ (stopSent /\ ~events[i].atEnd) => ~events[i].exhausted

\* C4: once is_exhausted() is true it stays true and every later write
\* returns 0, whatever Seek and Stop messages arrive.
C4_ExhaustedIsSticky ==
    [][IsExhausted(src) =>
          /\ IsExhausted(src')
          /\ last'.op = "write" => last'.ret = 0]_vars

\* C4, witness: a preloaded source that played to its end was sought back
\* afterwards, and the write that handled the Seek returned 0
C4_Witness ==
    /\ src.kind = "preloaded"
    /\ IsExhausted(src)
    /\ src.buffer_pos < src.buffer_len
    /\ \E i \in StoppedEvents(1) : events[i].exhausted
    /\ last = [op |-> "write", ret |-> 0]

\* ------------------------------------------------------------------------
\* Mixer level specification: the player's calls push events to the mixer,
\* the output callback runs MixedSource::write
\* ------------------------------------------------------------------------

InitMixer ==
    /\ NoSource
    /\ events = << >>
    /\ ctrlSent = 0
    /\ channel_count \in 1..MaxChannels
    /\ playing_sources = << >>
    /\ event_queue = << >>
    /\ drop_chan = << >>
    /\ sink_pos = 0
    /\ cb = [time |-> 0, out |-> << >>, ret |-> 0, listed |-> 0,
             produced |-> << >>, mixed |-> << >>]
    /\ nextId = 1
    /\ playing_map = {}
    /\ handled = 0
    /\ registry = << >>
    /\ NoPlayer
    /\ NotPlayed

\* a message sent on a source's playback message channel reaches the source
\* where it is: still in the AddSource event, or in the playing list
SendToSource(list, id, msg) ==
    [i \in 1..Len(list) |->
        IF "source" \in DOMAIN list[i] /\ list[i].playback_id = id
        THEN [list[i] EXCEPT !.source.msgs = Append(@, msg)]
        ELSE list[i]]

\* AudioFilePlayer::play_file_source with a preloaded source of the mixer's
\* layout, not repeated, not faded in
PlayFileSource ==
    /\ nextId <= MaxSources
    /\ \E start_time \in 0..(MaxTime - 1), frames \in 1..MaxFrames,
          fade_out \in {-1, MaxFade} :
          /\ event_queue' = Append(event_queue,
                AddSourceMsg(nextId,
                    PreloadedNew(nextId, channel_count, frames, 0, 0, fade_out),
                    start_time))
          /\ registry' = Append(registry,
                [start |-> start_time, frames |-> frames, eff_start |-> -1])
    /\ playing_map' = playing_map \cup {nextId}
    /\ nextId' = nextId + 1
    /\ UNCHANGED << srcVars, plyVars, events, ctrlSent, channel_count, playing_sources,
                    drop_chan, sink_pos, cb, handled >>

\* AudioFilePlayer::stop_source
StopSource ==
    /\ ctrlSent < MaxRequests
    /\ \E id \in playing_map :
          /\ event_queue' = SendToSource(event_queue, id, [type |-> "Stop", arg |-> 0])
          /\ playing_sources' = SendToSource(playing_sources, id, [type |-> "Stop", arg |-> 0])
          /\ playing_map' = playing_map \ {id}
    /\ ctrlSent' = ctrlSent + 1
    /\ UNCHANGED << srcVars, plyVars, events, channel_count, drop_chan, sink_pos, cb,
                    nextId, handled, registry >>

\* AudioFilePlayer::stop_source_at_sample_time
StopSourceAtSampleTime ==
    /\ ctrlSent < MaxRequests
    /\ \E id \in playing_map, stop_time \in 0..MaxTime :
          event_queue' = Append(event_queue, StopSourceMsg(id, stop_time))
    /\ ctrlSent' = ctrlSent + 1
    /\ UNCHANGED << srcVars, plyVars, events, channel_count, playing_sources, drop_chan,
                    sink_pos, cb, nextId, playing_map, handled, registry >>

RECURSIVE SendStopToAll(_, _)
SendStopToAll(list, ids) ==
    IF ids = {} THEN list
    ELSE LET id == CHOOSE i \in ids : TRUE
         IN SendStopToAll(SendToSource(list, id, [type |-> "Stop", arg |-> 0]),
                          ids \ {id})

\* AudioFilePlayer::stop_all_sources
StopAllSources ==
    /\ ctrlSent < MaxRequests
    /\ event_queue' = Append(SendStopToAll(event_queue, playing_map),
                             RemoveAllPendingSourcesMsg)
    /\ playing_sources' = SendStopToAll(playing_sources, playing_map)
    /\ playing_map' = {}
    /\ ctrlSent' = ctrlSent + 1
    /\ UNCHANGED << srcVars, plyVars, events, channel_count, drop_chan, sink_pos, cb,
                    nextId, handled, registry >>

\* MixedSourceMsg::RemoveAllSources pushed to the mixer's event queue
PushRemoveAllSources ==
    /\ ctrlSent < MaxRequests
    /\ event_queue' = Append(event_queue, RemoveAllSourcesMsg)
    /\ ctrlSent' = ctrlSent + 1
    /\ UNCHANGED << srcVars, plyVars, events, channel_count, playing_sources, drop_chan,
                    sink_pos, cb, nextId, playing_map, handled, registry >>

\* history: the frame at which a source added in this callback starts
NoteAdded(reg, queue, pos_in_frames) ==
    [id \in 1..Len(reg) |->
        IF \E i \in 1..Len(queue) :
              queue[i].type = "AddSource" /\ queue[i].playback_id = id
        THEN [reg[id] EXCEPT !.eff_start = Max(reg[id].start, pos_in_frames)]
        ELSE reg[id]]

\* MixedSource::write on a buffer of some frames, with whatever the buffer
\* held before
Render(frames, g) ==
    /\ LET output == [k \in 1..(frames * channel_count) |-> g]
           r == MixedWrite([playing |-> playing_sources,
                            queue |-> event_queue, drop |-> drop_chan],
                           output, sink_pos, channel_count)
       IN /\ playing_sources' = r.playing
          /\ drop_chan' = r.drop
          /\ events' = events \o r.events
          /\ cb' = [time |-> sink_pos, out |-> r.out, ret |-> r.ret,
                    listed |-> r.listed, produced |-> r.produced,
                    mixed |-> r.mixed]
          /\ sink_pos' = sink_pos + frames
    /\ event_queue' = << >>
    /\ registry' = NoteAdded(registry, event_queue, sink_pos)
    /\ UNCHANGED << src, shared, worker, mailbox, ring, last, stopSent,
                    ctrlSent, channel_count, nextId, playing_map, handled >>

\* the sink's output callback
Callback(frames, g) ==
    /\ Render(frames, g)
    /\ UNCHANGED auxVars

\* the callback as one step, the removed entries released at once
OutputCallback ==
    /\ sink_pos < MaxTime
    /\ \E frames \in 1..MaxBuf, g \in 0..1 : Callback(frames, g)
    /\ UNCHANGED plyVars

\* AudioFilePlayer::handle_events: the message thread receives the next
\* status event, forgets a stopped source and forwards the event
HandleEvents ==
    /\ handled < Len(events)
    /\ handled' = handled + 1
    /\ playing_map' = IF events[handled + 1].type = "Stopped"
                      THEN playing_map \ {events[handled + 1].id}
                      ELSE playing_map
    /\ UNCHANGED << srcVars, plyVars, events, ctrlSent, channel_count, playing_sources,
                    event_queue, drop_chan, sink_pos, cb, nextId, registry >>

\* sources are played and rendered, none is stopped or removed
NextMixer ==
    \/ PlayFileSource
    \/ OutputCallback
    \/ HandleEvents

SpecMixer == InitMixer /\ [][NextMixer]_vars

\* few sources are played, and stopped or removed by the player's requests
NextMixerStop ==
    \/ (nextId <= MaxStoppedSources /\ PlayFileSource)
    \/ StopSource
    \/ StopSourceAtSampleTime
    \/ StopAllSources
    \/ PushRemoveAllSources
    \/ OutputCallback
    \/ HandleEvents

SpecMixerStop == InitMixer /\ [][NextMixerStop]_vars

\* ------------------------------------------------------------------------
\* Properties of the mixer
\* ------------------------------------------------------------------------

\* frames of the last callback's buffer
CbFrames == Len(cb.out) \div channel_count

\* the frame of the output timeline of sample k of the last callback
OutFrame(k) == cb.time + ((k - 1) \div channel_count)

\* the sample position in the output timeline of sample k
OutPosition(k) == cb.time * channel_count + (k - 1)

\* the ids of the sources the mixer has taken over from its event queue
Added == { id \in 1..Len(registry) : registry[id].eff_start >= 0 }

\* what source id has to deliver at a sample position of the timeline
SourceSampleAt(id, a) ==
    LET from == registry[id].eff_start * channel_count
    IN IF id \in Added /\ a >= from
          /\ a < from + registry[id].frames * channel_count
       THEN BufferSample(id, a - from)
       ELSE 0

RECURSIVE ExpectedSum(_, _)
ExpectedSum(n, a) ==
    IF n = 0 THEN 0 ELSE ExpectedSum(n - 1, a) + SourceSampleAt(n, a)

\* C2: every entry handed to the drop channel has had exactly one Stopped
\* event emitted for its playback id, however it left the playing list
\* (exhaustion, RemoveAllPendingSources, RemoveAllSources).
C2_RetiredHasStopped ==
    \A i \in 1..Len(drop_chan) :
        Cardinality(StoppedEvents(drop_chan[i])) = 1

\* C5 as stated: for a source added with start frame T0 and a callback at
\* T_cb <= T0 < T_cb + buf_frames, the frames [T_cb, T0) of the buffer hold
\* contributions only of sources whose start frame is <= T_cb; the source
\* contributes nothing before T0; a source starting at or after the end of
\* the buffer contributes nothing.
C5_OnlyStartedBeforeCallback ==
    \A id \in Added :
        /\ (cb.time <= registry[id].start
              /\ registry[id].start < cb.time + CbFrames) =>
              \A k \in 1..Len(cb.out) :
                 OutFrame(k) < registry[id].start =>
                    /\ id \notin cb.mixed[k]
                    /\ \A c \in cb.mixed[k] : registry[c].start <= cb.time
        /\ registry[id].start >= cb.time + CbFrames =>
              \A k \in 1..Len(cb.out) : id \notin cb.mixed[k]

\* C5, amended: every frame of a callback's buffer holds contributions only
\* of sources whose start frame is at or before that frame: a source
\* starting within the buffer contributes nothing before its start frame
\* (other sources starting earlier within the same buffer do), and a source
\* starting at or after the end of the buffer contributes nothing.
C5_OnlyStartedSources ==
    \A k \in 1..Len(cb.out) :
        \A c \in cb.mixed[k] : registry[c].start <= OutFrame(k)

\* C5, witness: a source started within the buffer and was mixed into it,
\* while another source was mixed into a frame before that start
C5_Witness ==
    \E a \in Added, b \in Added :
        /\ a # b
        /\ registry[b].start > cb.time
        /\ \E k \in 1..Len(cb.out) : b \in cb.mixed[k]
        /\ \E k \in 1..Len(cb.out) :
              OutFrame(k) < registry[b].start /\ a \in cb.mixed[k]

\* C6: finite sources added in time with start frame S and N frames are
\* rendered completely and sample accurately: the output of every callback
\* is zero before S, the sources' samples on [S, S+N), zero from S+N on
\* (a write which returns 0 leaves silence to the sink).
C6_RenderedCompletely ==
    (\A id \in Added : registry[id].eff_start = registry[id].start) =>
        \A k \in 1..Len(cb.out) :
            (IF cb.ret = 0 THEN 0 ELSE cb.out[k])
                = ExpectedSum(Len(registry), OutPosition(k))

\* C7: a stop scheduled for a frame which is already in the past when the
\* mixer handles the StopSource event (before the callback's position, or
\* before the source's start frame) is sent to the source in the next
\* callback which runs the source: it is never lost.
C7_PastStopIsSent ==
    \A i \in 1..Len(playing_sources) :
        LET p == playing_sources[i]
        IN (/\ p.stop_time >= 0
            /\ (p.stop_time < p.stop_handled_at \/ p.stop_time < p.start_time)
            /\ p.start_time < cb.time + CbFrames)
           => p.stops_sent >= 1

\* C8: a stop scheduled for a frame T at or after the position of the
\* callback which handles it is sent to the source no later than the
\* callback whose buffer covers T, and no write request made to the source
\* before the Stop reaches beyond frame T.
C8_StopSentInTime ==
    \A i \in 1..Len(playing_sources) :
        LET p == playing_sources[i]
        IN (p.stop_time >= 0 /\ p.stop_time >= p.stop_handled_at) =>
              /\ p.stop_time < cb.time + CbFrames => p.stops_sent >= 1
              /\ p.asked_end <= p.stop_time * channel_count

C10_OutputIsSumOfSources ==
    \A k \in 1..Len(cb.out) : cb.out[k] = cb.produced[k]

\* ------------------------------------------------------------------------
\* AudioFilePlayer (player.rs): playback options, playback ids and the
\* calls of the player's interface as functions of the player's state
\* p = [map, queue, playing, open, ret]: the id -> sender map (its ids; the
\* sender kept for an id is the one of the source constructed with it), the
\* mixer's event queue and playing list (where the sources and their message
\* channels are), whether the event queue has its receiver, the result
\* ------------------------------------------------------------------------

\* f32::NAN as a volume, a number apart from the other volumes
NaN == 255

\* the volumes tried for the playback options
Volumes == {-1, 1, NaN}

\* faulty variant of SynthPlaybackOptionsValidate: every volume passes
SynthPlaybackOptionsValidateAny(volume) == "Ok"

\* SynthPlaybackOptions::validate
SynthPlaybackOptionsValidate(volume) ==
    IF volume < 0 \/ volume = NaN THEN "ParameterError" ELSE "Ok"

\* FilePlaybackOptions::validate
FilePlaybackOptionsValidate(volume) ==
    IF volume < 0 \/ volume = NaN THEN "ParameterError" ELSE "Ok"

\* faulty variant of UniqueUsizeId: the counter is read but not advanced
UniqueUsizeIdStuck(counter) == [id |-> counter, counter |-> counter]

\* unique_usize_id: FILE_ID_COUNTER.fetch_add(1), one atomic step
UniqueUsizeId(counter) == [id |-> counter, counter |-> counter + 1]

\* the variant of the PlaybackMessageSender of the source with an id
SenderOf(id) ==
    LET hits == { i \in 1..Len(allocs) : allocs[i].id = id }
    IN IF hits = {} THEN "None"
       ELSE allocs[CHOOSE i \in hits : \A j \in hits : i <= j].kind

\* the ids of the sources which were deallocated
Freed == { f.id : f \in freed_by }

\* play_file_source and play_synth: the id is memorized, then the source
\* is sent to the mixer
PlayerPlay(p, id, source, start_time) ==
    IF p.open
    THEN [p EXCEPT !.map = @ \cup {id},
                   !.queue = Append(@, AddSourceMsg(id, source, start_time)),
                   !.ret = "Ok"]
    ELSE [p EXCEPT !.map = @ \cup {id}, !.ret = "SendError"]

\* faulty variant of PlayerSeekSource: the id is not looked up
PlayerSeekSourceUnchecked(p, id, ticks) ==
    [p EXCEPT !.queue = SendToSource(@, id, [type |-> "Seek", arg |-> ticks]),
              !.playing = SendToSource(@, id, [type |-> "Seek", arg |-> ticks]),
              !.ret = "Ok"]

\* seek_source
PlayerSeekSource(p, id, ticks) ==
    IF id \in p.map
    THEN IF SenderOf(id) = "File"
         THEN [p EXCEPT
                 !.queue = SendToSource(@, id, [type |-> "Seek", arg |-> ticks]),
                 !.playing = SendToSource(@, id, [type |-> "Seek", arg |-> ticks]),
                 !.ret = "Ok"]
         ELSE [p EXCEPT !.ret = "Ok"]
    ELSE [p EXCEPT !.ret = "MediaFileNotFound"]

\* faulty variant of PlayerStopSource: the id stays in the map
PlayerStopSourceKeeps(p, id) ==
    IF id \in p.map
    THEN [p EXCEPT
            !.queue = SendToSource(@, id, [type |-> "Stop", arg |-> 0]),
            !.playing = SendToSource(@, id, [type |-> "Stop", arg |-> 0]),
            !.ret = "Ok"]
    ELSE [p EXCEPT !.ret = "MediaFileNotFound"]

\* stop_source
PlayerStopSource(p, id) ==
    IF id \in p.map
    THEN [p EXCEPT
            !.queue = SendToSource(@, id, [type |-> "Stop", arg |-> 0]),
            !.playing = SendToSource(@, id, [type |-> "Stop", arg |-> 0]),
            !.map = @ \ {id},
            !.ret = "Ok"]
    ELSE [p EXCEPT !.ret = "MediaFileNotFound"]

\* stop_source_at_sample_time
PlayerStopSourceAt(p, id, stop_time) ==
    IF id \in p.map
    THEN IF p.open
         THEN [p EXCEPT !.queue = Append(@, StopSourceMsg(id, stop_time)),
                        !.ret = "Ok"]
         ELSE [p EXCEPT !.ret = "SendError"]
    ELSE [p EXCEPT !.ret = "MediaFileNotFound"]

\* stop_all_sources after the last id of the snapshot
PlayerStopAllEnd(p) ==
    IF p.open
    THEN [p EXCEPT !.queue = Append(@, RemoveAllPendingSourcesMsg),
                   !.ret = "Ok"]
    ELSE [p EXCEPT !.ret = "SendError"]

\* faulty variant of HandleStopped: the id is left in the map
HandleStoppedKeeps(map, event) == map

\* handle_events, a status event received: a stopped source is forgotten
HandleStopped(map, event) ==
    IF event.type = "Stopped" THEN map \ {event.id} ELSE map

\* ------------------------------------------------------------------------
\* Player level specification: the user's thread calls the player, the
\* message thread handles status and drop events, the audio thread runs
\* the callback and releases the entries it removed
\* ------------------------------------------------------------------------

\* the sink is mono
InitPlayer ==
    /\ InitMixer
    /\ channel_count = 1

\* the ids asked for: those of the sources and one never handed out
Ids == 1..(MaxPlayerSources + 1)

\* the player's state as the calls see it
PlayerState ==
    [map |-> playing_map, queue |-> event_queue, playing |-> playing_sources,
     open |-> mixer_open, ret |-> "none"]

\* the player's state as a call leaves it
PlayerStateBecomes(r) ==
    /\ playing_map' = r.map
    /\ event_queue' = r.queue
    /\ playing_sources' = r.playing

\* what no call of the player's interface touches
callVars == << srcVars, events, channel_count, drop_chan, sink_pos, cb,
               handled, registry, forwarded, drop_recv, dying, freed_by,
               mixer_open, played >>

\* history of the successful stop_source calls: the Stop is sent (try_send
\* succeeds) while the source and with it the channel's receiver exists
NoteStop(r, id) ==
    IF r.ret = "Ok"
    THEN Append(stops_by_player, [id |-> id, sent |-> id \notin Freed])
    ELSE stops_by_player

\* AudioFilePlayer::play_file with a preloaded file of the mixer's layout
\* and of one frame
PlayFile ==
    /\ stop_all.pc = "idle"
    /\ \E volume \in Volumes, start_time \in {0, MaxTime - 1}, frames \in {1} :
          IF FilePlaybackOptionsValidate(volume) # "Ok"
          THEN /\ ctrlSent < MaxCalls
               /\ ctrlSent' = ctrlSent + 1
               /\ result' = [op |-> "play_file", id |-> 0, arg |-> volume,
                             ret |-> FilePlaybackOptionsValidate(volume), seen |-> forwarded]
               /\ UNCHANGED << playing_map, event_queue, playing_sources,
                               nextId, allocs >>
          ELSE /\ Len(allocs) < MaxPlayerSources
               /\ LET a == UniqueUsizeId(nextId)
                      r == PlayerPlay(PlayerState, a.id,
                               PreloadedNew(a.id, channel_count, frames, 0, 0, -1),
                               start_time)
                  IN /\ nextId' = a.counter
                     /\ allocs' = Append(allocs, [id |-> a.id, kind |-> "File"])
                     /\ PlayerStateBecomes(r)
                     /\ result' = [op |-> "play_file", id |-> a.id,
                                   arg |-> volume, ret |-> r.ret, seen |-> forwarded]
               /\ UNCHANGED ctrlSent
    /\ UNCHANGED << stop_all, stops_by_player, callVars >>

\* AudioFilePlayer::play_dasp_synth, the sink being mono
PlayDaspSynth ==
    /\ stop_all.pc = "idle"
    /\ channel_count = 1
    /\ \E volume \in Volumes, frames \in {1} :
          IF SynthPlaybackOptionsValidate(volume) # "Ok"
          THEN /\ ctrlSent < MaxCalls
               /\ ctrlSent' = ctrlSent + 1
               /\ result' = [op |-> "play_dasp_synth", id |-> 0, arg |-> volume,
                             ret |-> SynthPlaybackOptionsValidate(volume), seen |-> forwarded]
               /\ UNCHANGED << playing_map, event_queue, playing_sources,
                               nextId, allocs >>
          ELSE /\ Len(allocs) < MaxPlayerSources
               /\ LET a == UniqueUsizeId(nextId)
                      r == PlayerPlay(PlayerState, a.id, SynthNew(a.id, frames), 0)
                  IN /\ nextId' = a.counter
                     /\ allocs' = Append(allocs, [id |-> a.id, kind |-> "Synth"])
                     /\ PlayerStateBecomes(r)
                     /\ result' = [op |-> "play_dasp_synth", id |-> a.id,
                                   arg |-> volume, ret |-> r.ret, seen |-> forwarded]
               /\ UNCHANGED ctrlSent
    /\ UNCHANGED << stop_all, stops_by_player, callVars >>

\* PreloadedFileSource::with_buffer called on any thread: a source is
\* constructed which is not played
WithBuffer ==
    /\ \E volume \in Volumes :
          IF FilePlaybackOptionsValidate(volume) # "Ok"
          THEN /\ ctrlSent < MaxCalls
               /\ ctrlSent' = ctrlSent + 1
               /\ result' = [op |-> "with_buffer", id |-> 0, arg |-> volume,
                             ret |-> FilePlaybackOptionsValidate(volume), seen |-> forwarded]
               /\ UNCHANGED << nextId, allocs >>
          ELSE /\ Len(allocs) < MaxPlayerSources
               /\ LET a == UniqueUsizeId(nextId)
                  IN /\ nextId' = a.counter
                     /\ allocs' = Append(allocs, [id |-> a.id, kind |-> "File"])
                     /\ result' = [op |-> "with_buffer", id |-> a.id,
                                   arg |-> volume, ret |-> "Ok", seen |-> forwarded]
               /\ UNCHANGED ctrlSent
    /\ UNCHANGED << playing_map, event_queue, playing_sources, stop_all,
                    stops_by_player, callVars >>

\* AudioFilePlayer::seek_source
SeekSourceCall ==
    /\ stop_all.pc = "idle"
    /\ ctrlSent < MaxCalls
    /\ \E id \in Ids, ticks \in {0} :
          LET r == PlayerSeekSource(PlayerState, id, ticks)
          IN /\ PlayerStateBecomes(r)
             /\ result' = [op |-> "seek_source", id |-> id, arg |-> 0,
                           ret |-> r.ret, seen |-> forwarded]
    /\ ctrlSent' = ctrlSent + 1
    /\ UNCHANGED << nextId, allocs, stop_all, stops_by_player, callVars >>

\* AudioFilePlayer::stop_source
StopSourceCall ==
    /\ stop_all.pc = "idle"
    /\ ctrlSent < MaxCalls
    /\ \E id \in Ids :
          LET r == PlayerStopSource(PlayerState, id)
          IN /\ PlayerStateBecomes(r)
             /\ stops_by_player' = NoteStop(r, id)
             /\ result' = [op |-> "stop_source", id |-> id, arg |-> 0,
                           ret |-> r.ret, seen |-> forwarded]
    /\ ctrlSent' = ctrlSent + 1
    /\ UNCHANGED << nextId, allocs, stop_all, callVars >>

\* AudioFilePlayer::stop_source_at_sample_time
StopSourceAtCall ==
    /\ stop_all.pc = "idle"
    /\ ctrlSent < MaxCalls
    /\ \E id \in Ids, stop_time \in {MaxTime - 1} :
          LET r == PlayerStopSourceAt(PlayerState, id, stop_time)
          IN /\ PlayerStateBecomes(r)
             /\ result' = [op |-> "stop_source_at_sample_time", id |-> id,
                           arg |-> 0, ret |-> r.ret, seen |-> forwarded]
    /\ ctrlSent' = ctrlSent + 1
    /\ UNCHANGED << nextId, allocs, stop_all, stops_by_player, callVars >>

\* stop_all_sources: the ids are copied under the lock
StopAllSnapshot ==
    /\ stop_all.pc = "idle"
    /\ ctrlSent < MaxCalls
    /\ stop_all' = [pc |-> "loop", ids |-> playing_map, snapshot |-> playing_map]
    /\ ctrlSent' = ctrlSent + 1
    /\ UNCHANGED << playing_map, event_queue, playing_sources, result, nextId,
                    allocs, stops_by_player, callVars >>

\* stop_all_sources: self.stop_source(source_id)? for the next id, in the
\* order the map's keys came; an error ends the call
StopAllNext ==
    /\ stop_all.pc = "loop"
    /\ \E id \in stop_all.ids :
          LET r == PlayerStopSource(PlayerState, id)
          IN /\ PlayerStateBecomes(r)
             /\ stops_by_player' = NoteStop(r, id)
             /\ IF r.ret = "Ok"
                THEN /\ stop_all' = [stop_all EXCEPT !.ids = @ \ {id}]
                     /\ UNCHANGED result
                ELSE /\ stop_all' = [pc |-> "idle", ids |-> {}, snapshot |-> {}]
                     /\ result' = [op |-> "stop_all_sources", id |-> id,
                                   arg |-> 0, ret |-> r.ret, seen |-> forwarded]
    /\ UNCHANGED << ctrlSent, nextId, allocs, callVars >>

\* stop_all_sources: RemoveAllPendingSources is sent
StopAllFinish ==
    /\ stop_all.pc = "loop"
    /\ stop_all.ids = {}
    /\ LET r == PlayerStopAllEnd(PlayerState)
       IN /\ PlayerStateBecomes(r)
          /\ result' = [op |-> "stop_all_sources", id |-> 0, arg |-> 0,
                        ret |-> r.ret, seen |-> forwarded]
    /\ stop_all' = [pc |-> "idle", ids |-> {}, snapshot |-> {}]
    /\ UNCHANGED << ctrlSent, nextId, allocs, stops_by_player, callVars >>

\* handle_events: the message thread receives a status event and forgets a
\* stopped source
MsgReceive ==
    /\ handled = forwarded
    /\ handled < Len(events)
    /\ handled' = handled + 1
    /\ playing_map' = HandleStopped(playing_map, events[handled + 1])
    /\ UNCHANGED << srcVars, events, ctrlSent, channel_count, playing_sources,
                    event_queue, drop_chan, sink_pos, cb, nextId, registry,
                    plyVars >>

\* handle_events: the message thread forwards the event to the user
MsgForward ==
    /\ handled > forwarded
    /\ forwarded' = forwarded + 1
    /\ UNCHANGED << srcVars, events, ctrlSent, channel_count, playing_sources,
                    event_queue, drop_chan, sink_pos, cb, nextId, playing_map,
                    handled, registry, result, stop_all, drop_recv, dying,
                    freed_by, mixer_open, allocs, stops_by_player, played >>

\* handle_events: the message thread receives a drop event and drops it,
\* which deallocates the source if the mixer's entry is gone
MsgDrop ==
    /\ handled = forwarded
    /\ drop_recv < Len(drop_chan)
    /\ drop_recv' = drop_recv + 1
    /\ freed_by' = IF drop_chan[drop_recv + 1] \in dying THEN freed_by
                   ELSE freed_by \cup {[id |-> drop_chan[drop_recv + 1],
                                        thread |-> "message"]}
    /\ UNCHANGED << srcVars, events, ctrlSent, channel_count, playing_sources,
                    event_queue, drop_chan, sink_pos, cb, nextId, playing_map,
                    handled, registry, result, stop_all, forwarded, dying,
                    mixer_open, allocs, stops_by_player, played >>

\* the ids sent on the drop channel by a callback
SentToDrop(before, after) ==
    { after[i] : i \in (Len(before) + 1)..Len(after) }

\* the sink's output callback, on buffers of one size, up to the drop
\* events sent for the entries to remove: the entries themselves are still
\* in the list
AudioWrite ==
    /\ mixer_open
    /\ dying = {}
    /\ sink_pos < MaxTime
    /\ \E frames \in {MaxBuf - 1} : Callback(frames, 0)
    /\ dying' = SentToDrop(drop_chan, drop_chan')
    /\ UNCHANGED << result, stop_all, forwarded, drop_recv, freed_by,
                    mixer_open, allocs, stops_by_player, played >>

\* retain and clear: the audio thread drops the entry of a removed source,
\* which deallocates the source if its drop event is gone already
AudioRelease ==
    /\ \E id \in dying :
          /\ dying' = dying \ {id}
          /\ freed_by' =
                IF \E i \in (drop_recv + 1)..Len(drop_chan) : drop_chan[i] = id
                THEN freed_by
                ELSE freed_by \cup {[id |-> id, thread |-> "audio"]}
    /\ UNCHANGED << srcVars, events, ctrlSent, channel_count, playing_sources,
                    event_queue, drop_chan, sink_pos, cb, nextId, playing_map,
                    handled, registry, result, stop_all, forwarded, drop_recv,
                    mixer_open, allocs, stops_by_player, played >>

\* the sink lets go of the mixer: the event queue loses its receiver
MixerLost ==
    /\ mixer_open
    /\ dying = {}
    /\ mixer_open' = FALSE
    /\ UNCHANGED << srcVars, events, ctrlSent, channel_count, playing_sources,
                    event_queue, drop_chan, sink_pos, cb, nextId, playing_map,
                    handled, registry, result, stop_all, forwarded, drop_recv,
                    dying, freed_by, allocs, stops_by_player, played >>

\* sources are constructed and played, sought and stopped one by one
NextPlayer ==
    \/ PlayFile
    \/ PlayDaspSynth
    \/ WithBuffer
    \/ SeekSourceCall
    \/ StopSourceCall
    \/ StopSourceAtCall
    \/ MsgReceive
    \/ MsgForward
    \/ MsgDrop
    \/ AudioWrite
    \/ AudioRelease
    \/ MixerLost

SpecPlayer == InitPlayer /\ [][NextPlayer]_vars

\* sources are played and stopped all at once
NextStopAll ==
    \/ PlayFile
    \/ StopAllSnapshot
    \/ StopAllNext
    \/ StopAllFinish
    \/ MsgReceive
    \/ MsgForward
    \/ MsgDrop
    \/ AudioWrite
    \/ AudioRelease

SpecStopAll == InitPlayer /\ [][NextStopAll]_vars

\* ------------------------------------------------------------------------
\* Properties of the player
\* ------------------------------------------------------------------------

\* a step which is a call of seek_source, stop_source or
\* stop_source_at_sample_time
IdCallStep ==
    /\ ctrlSent' # ctrlSent
    /\ result'.op \in {"seek_source", "stop_source",
                       "stop_source_at_sample_time"}

\* a step which is a call of play_file, play_dasp_synth or with_buffer
PlayCallStep ==
    /\ ctrlSent' # ctrlSent \/ allocs' # allocs
    /\ result'.op \in {"play_file", "play_dasp_synth", "with_buffer"}

\* the ids of the sources constructed so far
Allocated == { allocs[i].id : i \in 1..Len(allocs) }

\* the ids whose Stopped event is among the first n forwarded to the user
StoppedAmong(n) ==
    { events[i].id : i \in { j \in 1..n : events[j].type = "Stopped" } }

\* the ids whose Stopped event the user has received
StoppedForUser == StoppedAmong(forwarded)

\* C11: for an id which is not in the player's map (never played, or
\* removed already), stop_source, seek_source and stop_source_at_sample_time
\* return the NotFound error (Error::MediaFileNotFound), send no message to
\* a source or to the mixer and leave the map as it is.
C11_UnknownIdIsNotFound ==
    [][(IdCallStep /\ result'.id \notin playing_map) =>
          /\ result'.ret = "MediaFileNotFound"
          /\ playing_map' = playing_map
          /\ event_queue' = event_queue
          /\ playing_sources' = playing_sources]_vars

\* C11, witness: stop_source_at_sample_time was called with the id of a
\* source which was played and had been removed from the map when its
\* Stopped event came, and returned NotFound
C11_Witness ==
    /\ result.ret = "MediaFileNotFound"
    /\ result.op = "stop_source_at_sample_time"
    /\ result.id \in Allocated
    /\ result.id \in StoppedAmong(result.seen)

\* C12 as stated: a successful stop_source(id) removes the id from the map
\* at once, no later stop_source(id) succeeds, and for every successful
\* stop_source exactly one Stop message is sent to the source.
C12_ExactlyOneStopSent ==
    /\ \A i \in 1..Len(stops_by_player) :
          /\ stops_by_player[i].id \notin playing_map
          /\ stops_by_player[i].sent
    /\ \A i, j \in 1..Len(stops_by_player) :
          stops_by_player[i].id = stops_by_player[j].id => i = j

\* C12: a successful stop_source(id) removes the id from the map at once,
\* no later stop_source(id) succeeds, and at most one Stop message is sent
\* to the source: exactly one unless the source was deallocated before the
\* call, when none can be sent.
C12_AtMostOneStopSent ==
    /\ \A i \in 1..Len(stops_by_player) :
          /\ stops_by_player[i].id \notin playing_map
          /\ stops_by_player[i].sent \/ stops_by_player[i].id \in Freed
    /\ \A i, j \in 1..Len(stops_by_player) :
          stops_by_player[i].id = stops_by_player[j].id => i = j

\* C12, witness: stop_source was called twice with the id of a source, the
\* first call sent the Stop, the second one returned NotFound
C12_Witness ==
    /\ result.op = "stop_source"
    /\ result.ret = "MediaFileNotFound"
    /\ \E i \in 1..Len(stops_by_player) :
          stops_by_player[i].id = result.id /\ stops_by_player[i].sent

\* C13: seek_source on the id of a playing synth source returns the
\* NotSupported error, sends nothing to the source and keeps the id in the
\* map.
C13_SeekSynthNotSupported ==
    [][(/\ IdCallStep
        /\ result'.op = "seek_source"
        /\ result'.id \in playing_map
        /\ SenderOf(result'.id) = "Synth") =>
          /\ result'.ret = "NotSupported"
          /\ event_queue' = event_queue
          /\ playing_sources' = playing_sources
          /\ playing_map' = playing_map]_vars

\* C14: stop_all_sources, under every interleaving with the message thread,
\* stops every source of its snapshot, then sends RemoveAllPendingSources to
\* the mixer and returns Ok (the mixer's event queue being open).
C14_StopAllCompletes ==
    [][(stop_all.pc = "loop" /\ stop_all'.pc = "idle" /\ mixer_open) =>
          /\ result'.ret = "Ok"
          /\ event_queue' # << >>
          /\ event_queue'[Len(event_queue')] = RemoveAllPendingSourcesMsg
          /\ stop_all.snapshot \cap playing_map' = {}]_vars

\* C15: the message thread removes an id from the map before it forwards
\* the id's Stopped event: an id whose Stopped event the user has received
\* is not in the map, is never inserted again, and every later stop_source,
\* seek_source or stop_source_at_sample_time with it returns NotFound.
C15_StoppedIdIsForgotten ==
    [][/\ StoppedForUser' \cap playing_map' = {}
       /\ (IdCallStep /\ result'.id \in StoppedForUser) =>
             result'.ret = "MediaFileNotFound"]_vars

\* C15, witness: the user received the Stopped event of a source and called
\* stop_source with its id afterwards
C15_Witness ==
    /\ result.op = "stop_source"
    /\ result.id \in StoppedAmong(result.seen)
    /\ result.ret = "MediaFileNotFound"
    /\ stops_by_player = << >>

\* C16: the last reference to a source removed from the mixer's list is
\* released on the message thread, never on the audio thread.
C16_FreedOnMessageThread ==
    \A f \in freed_by : f.thread = "message"

\* C17: the playback ids handed out are strictly increasing in allocation
\* order, hence pairwise distinct and never used again.
C17_IdsIncrease ==
    \A i, j \in 1..Len(allocs) : i < j => allocs[i].id < allocs[j].id

\* C17, witness: two sources were constructed, the last one by
\* with_buffer, and the first one, which was played, has been deallocated
C17_Witness ==
    /\ Len(allocs) = MaxPlayerSources
    /\ result.op = "with_buffer"
    /\ result.id = allocs[Len(allocs)].id
    /\ allocs[1].id \in Freed

\* C18: with playback options which fail validation (a negative or NaN
\* volume) play_file, play_dasp_synth and with_buffer return ParameterError
\* and change nothing: no id is allocated, none is inserted into the map and
\* no AddSource is sent.
C18_InvalidOptionsChangeNothing ==
    [][(PlayCallStep /\ (result'.arg < 0 \/ result'.arg = NaN)) =>
          /\ result'.ret = "ParameterError"
          /\ nextId' = nextId
          /\ allocs' = allocs
          /\ playing_map' = playing_map
          /\ event_queue' = event_queue]_vars

\* C18, witness: play_dasp_synth was called with a NaN volume while a
\* source was playing
C18_Witness ==
    /\ result.op = "play_dasp_synth"
    /\ result.arg = NaN
    /\ result.ret = "ParameterError"
    /\ playing_map # {}

\* C19: when AddSource cannot be delivered to the mixer, play_file_source
\* and play_synth return SendError and the new source's id is not in the
\* map.
C19_SendErrorLeavesMap ==
    [][(PlayCallStep /\ result'.ret = "SendError") =>
          /\ result'.id \notin playing_map'
          /\ playing_map' = playing_map]_vars

\* ------------------------------------------------------------------------
\* A preloaded source and a clone of it: both are written, sought and
\* stopped
\* ------------------------------------------------------------------------

InitClone ==
    /\ NoSource
    /\ events = << >>
    /\ ctrlSent = 0
    /\ NoMixer
    /\ NotPlayed

\* PreloadedFileSource::new: the file is decoded, then with_buffer
NewPreloaded ==
    /\ src.kind = "none"
    /\ \E cc \in 1..MaxChannels, frames \in 1..MaxFrames, fade_out \in {-1, MaxFade} :
          LET a == UniqueUsizeId(nextId)
          IN /\ src' = PreloadedNew(a.id, cc, frames, 0, 0, fade_out)
             /\ nextId' = a.counter
    /\ decodes' = decodes + 1
    /\ last' = [op |-> "new", ret |-> 0]
    /\ UNCHANGED << shared, worker, mailbox, ring, stopSent, clone, prev_write,
                    user_chan, lock, events, ctrlSent, channel_count, playing_sources, event_queue,
                    drop_chan, sink_pos, cb, playing_map, handled, registry,
                    plyVars >>

\* PreloadedFileSource::clone
CloneCall ==
    /\ src.kind = "preloaded"
    /\ clone.kind = "none"
    /\ \E volume \in Volumes, repeat \in 0..MaxRepeat, fade_out \in {-1, MaxFade} :
          IF FilePlaybackOptionsValidate(volume) # "Ok"
          THEN /\ last' = [op |-> "clone", ret |-> 0]
               /\ UNCHANGED << clone, nextId >>
          ELSE LET a == UniqueUsizeId(nextId)
               IN /\ clone' = PreloadedClone(src, a.id, repeat, 0, fade_out)
                  /\ nextId' = a.counter
                  /\ last' = [op |-> "clone", ret |-> 1]
    /\ UNCHANGED << src, shared, worker, mailbox, ring, stopSent, decodes,
                    prev_write, user_chan, lock, events, ctrlSent, channel_count,
                    playing_sources,
                    event_queue, drop_chan, sink_pos, cb, playing_map, handled,
                    registry, plyVars >>

\* AudioSource::write of the clone
CloneWrite ==
    /\ clone.kind = "preloaded"
    /\ \E outLen \in 1..MaxWrite :
          LET r == PreloadedWrite(clone, outLen)
          IN /\ clone' = r.s
             /\ events' = events \o r.events
             /\ last' = [op |-> "write", ret |-> Len(r.out)]
    /\ UNCHANGED << src, shared, worker, mailbox, ring, stopSent, decodes,
                    prev_write, user_chan, lock, ctrlSent, mixVars >>

\* a Seek or Stop sent with the clone's playback_message_sender
CloneSend ==
    /\ clone.kind = "preloaded"
    /\ ctrlSent < MaxCtrl
    /\ \E msg \in {[type |-> "Stop", arg |-> 0]}
                  \cup {[type |-> "Seek", arg |-> t] : t \in SeekPositions(clone)} :
          clone' = [clone EXCEPT !.msgs = Append(@, msg)]
    /\ ctrlSent' = ctrlSent + 1
    /\ last' = [op |-> "other", ret |-> 0]
    /\ UNCHANGED << src, shared, worker, mailbox, ring, stopSent, decodes,
                    prev_write, user_chan, lock, events, mixVars >>

\* the source and its clone are played, sought and stopped
NextClone ==
    \/ NewPreloaded
    \/ CloneCall
    \/ SourceWrite
    \/ SendSeek
    \/ SendStop
    \/ CloneWrite
    \/ CloneSend

SpecClone == InitClone /\ [][NextClone]_vars

\* C22: clone() does not create a decoder; the clone plays the buffer of the
\* original, has a fresh playback id and a message channel of its own (empty,
\* whatever was sent to the original), and starts at buffer position 0.
\* Writing, seeking and stopping the clone leave the original as it is, and
\* no source ever changes the buffer it plays.
C22_CloneSharesBufferOnly ==
    [][/\ (clone.kind = "none" /\ clone'.kind = "preloaded") =>
             /\ decodes' = decodes
             /\ clone'.buffer = src.buffer
             /\ clone'.buffer_len = src.buffer_len
             /\ clone'.buffer_channel_count = src.buffer_channel_count
             /\ clone'.file_id # src.file_id
             /\ clone'.file_id = nextId
             /\ nextId' > nextId
             /\ clone'.msgs = << >>
             /\ clone'.buffer_pos = 0
             /\ ~clone'.playback_finished
             /\ src' = src
       /\ (clone.kind = "preloaded" /\ clone' # clone) =>
             /\ src' = src
             /\ decodes' = decodes
             /\ clone'.buffer = clone.buffer
             /\ clone'.buffer_len = clone.buffer_len
             /\ clone'.file_id = clone.file_id
       /\ (src.kind = "preloaded" /\ src' # src) =>
             /\ clone' = clone
             /\ src'.buffer = src.buffer
             /\ src'.buffer_len = src.buffer_len]_vars

\* C22, witness: a source which has played into its buffer and has a message
\* waiting was cloned just now
C22_Witness ==
    /\ last = [op |-> "clone", ret |-> 1]
    /\ decodes = 1
    /\ src.buffer_pos > 0
    /\ src.buffer_pos < src.buffer_len
    /\ src.msgs # << >>
    /\ clone.kind = "preloaded"
    /\ clone.buffer = src.buffer
    /\ clone.file_id # src.file_id
    /\ clone.buffer_pos = 0
    /\ clone.msgs = << >>

\* ------------------------------------------------------------------------
\* A preloaded source which is written, sought and stopped, with a history
\* of its last write
\* ------------------------------------------------------------------------

InitSeek ==
    /\ InitSourceCommon
    /\ NoMixer
    /\ NotPlayed
    /\ InitPreloaded

\* AudioSource::write of the preloaded source
PreloadedSeekWrite ==
    /\ src.kind = "preloaded"
    /\ \E outLen \in 1..MaxWrite :
          LET r == PreloadedWrite(src, outLen)
          IN /\ src' = r.s
             /\ events' = events \o r.events
             /\ last' = [op |-> "write", ret |-> Len(r.out)]
             /\ prev_write' = [kind |-> "write", s |-> src,
                               events |-> Len(events), len |-> outLen,
                               out |-> r.out]
    /\ UNCHANGED << shared, worker, mailbox, ring, ctrlSent, stopSent, clone,
                    decodes, user_chan, lock, mixVars >>

NextSeek ==
    \/ PreloadedSeekWrite
    \/ SendSeek
    \/ SendStop

SpecSeek == InitSeek /\ [][NextSeek]_vars

\* a Seek message
SeekMsg(ticks) == [type |-> "Seek", arg |-> ticks]

\* the position asked for is at or past the end of the source's buffer
AtOrPastEnd(s, ticks) == (ticks * s.buffer_channel_count) \div 2 >= s.buffer_len

\* the last message waiting for the source is a Seek at or past the end
EndsWithSeekToEnd(s) ==
    /\ s.msgs # << >>
    /\ s.msgs[Len(s.msgs)].type = "Seek"
    /\ AtOrPastEnd(s, s.msgs[Len(s.msgs)].arg)

\* the source of the last write as its messages left it
Sought == PreloadedDrainMsgs(prev_write.s)

\* the status events the last write sent
EventsOfWrite == SubSeq(events, prev_write.events + 1, Len(events))

\* C25 as stated: a Seek leaves buffer_pos within [0, buffer_len]; a Seek
\* at or past the end sets buffer_pos to buffer_len, and the write which
\* handles it ends the source by natural exhaustion: Stopped{exhausted =
\* true} is sent and is_exhausted() is true.
C25_SeekToEndEndsSource ==
    /\ src.buffer_pos \in 0..src.buffer_len
    /\ PreloadedDrainMsgs(src).buffer_pos \in 0..src.buffer_len
    /\ (prev_write.kind = "write" /\ EndsWithSeekToEnd(prev_write.s)) =>
          /\ Sought.buffer_pos = Sought.buffer_len
          /\ PreloadedIsExhausted(src)
          /\ EventsOfWrite = << StoppedEvent(src.file_id, TRUE, TRUE) >>

\* C25, amended: a Seek leaves buffer_pos within [0, buffer_len]; a Seek at
\* or past the end sets buffer_pos to buffer_len.  The write which handles
\* it ends the source by natural exhaustion if the source has not finished
\* and has no repeat left; a source with repeats left counts one repeat and
\* plays on from the start of the buffer.
C25_SeekToEndEndsUnrepeated ==
    /\ src.buffer_pos \in 0..src.buffer_len
    /\ PreloadedDrainMsgs(src).buffer_pos \in 0..src.buffer_len
    /\ (prev_write.kind = "write" /\ EndsWithSeekToEnd(prev_write.s)) =>
          /\ Sought.buffer_pos = Sought.buffer_len
          /\ (~Sought.playback_finished /\ Sought.repeat = 0) =>
                /\ PreloadedIsExhausted(src)
                /\ prev_write.out = << >>
                /\ EventsOfWrite = << StoppedEvent(src.file_id, TRUE, TRUE) >>
          /\ (~Sought.playback_finished /\ Sought.repeat > 0) =>
                /\ prev_write.out # << >>
                /\ prev_write.out[1] = BufferSample(src.buffer, 0)
                /\ Sought.repeat # RepeatForever =>
                      src.repeat < Sought.repeat

\* C25, witness: a source without repeat in the middle of its buffer was
\* sought past the end of the buffer, and the write which came next ended it
C25_Witness ==
    /\ prev_write.kind = "write"
    /\ EndsWithSeekToEnd(prev_write.s)
    /\ ~AtOrPastEnd(prev_write.s, prev_write.s.msgs[Len(prev_write.s.msgs)].arg - 1)
    /\ prev_write.s.buffer_pos > 0
    /\ prev_write.s.buffer_pos < prev_write.s.buffer_len
    /\ ~Sought.playback_finished
    /\ Sought.repeat = 0
    /\ PreloadedIsExhausted(src)
    /\ src.buffer_pos = src.buffer_len
    /\ EventsOfWrite # << >>

\* a sequence but its last element
Front(seq) == SubSeq(seq, 1, Len(seq) - 1)

\* the last two messages waiting for the source are the same Seek
EndsWithTwoSeeks(s) ==
    /\ Len(s.msgs) >= 2
    /\ s.msgs[Len(s.msgs)].type = "Seek"
    /\ s.msgs[Len(s.msgs) - 1] = s.msgs[Len(s.msgs)]

\* the source of the last write had it got the second Seek only
SoughtOnce == [prev_write.s EXCEPT !.msgs = Front(@)]

\* the source of the last write had it got none of the two Seeks
NotSought == [prev_write.s EXCEPT !.msgs = Front(Front(@))]

\* C26: two Seek messages to the same position, one after the other, leave
\* a preloaded source in the state one Seek to that position leaves it in:
\* the same buffer_pos, with repeat counter and fader as they were before
\* the Seeks; the write which handles them, and so every later write, gives
\* the same output and the same events as after a single Seek.  (The
\* source is compared without the messages sent to it after the write.)
C26_SeekTwiceIsSeekOnce ==
    (prev_write.kind = "write" /\ EndsWithTwoSeeks(prev_write.s)) =>
        /\ Sought = PreloadedDrainMsgs(SoughtOnce)
        /\ Sought.repeat = PreloadedDrainMsgs(NotSought).repeat
        /\ Sought.volume_fader = PreloadedDrainMsgs(NotSought).volume_fader
        /\ [src EXCEPT !.msgs = << >>] = PreloadedWrite(SoughtOnce, prev_write.len).s
        /\ prev_write.out = PreloadedWrite(SoughtOnce, prev_write.len).out
        /\ EventsOfWrite = PreloadedWrite(SoughtOnce, prev_write.len).events

\* C26, witness: a source in the middle of its buffer got two Seeks to one
\* position, which is not where it was, and has written samples since
C26_Witness ==
    /\ prev_write.kind = "write"
    /\ EndsWithTwoSeeks(prev_write.s)
    /\ prev_write.s.buffer_pos > 0
    /\ ~prev_write.s.playback_finished
    /\ Sought.buffer_pos # prev_write.s.buffer_pos
    /\ prev_write.out # << >>
    /\ ~PreloadedIsExhausted(src)

\* ------------------------------------------------------------------------
\* The mixer's playing list: several sources are added, stopped and removed
\* ------------------------------------------------------------------------

\* an entry of the playing list without its source
EntryView(p) ==
    [playback_id |-> p.playback_id, start_time |-> p.start_time,
     stop_time |-> p.stop_time, is_active |-> p.is_active]

ListView(list) == [i \in 1..Len(list) |-> EntryView(list[i])]

\* history: the event loop of write, the list and the drop channel before
\* the first event and after each event
RECURSIVE DrainTrace(_, _, _)
DrainTrace(m, queue, pos_in_frames) ==
    IF queue = << >>
    THEN << [playing |-> ListView(m.playing), drop |-> m.drop] >>
    ELSE << [playing |-> ListView(m.playing), drop |-> m.drop] >>
         \o DrainTrace(MixedOnEvent(m, Head(queue), pos_in_frames),
                       Tail(queue), pos_in_frames)

\* the types of the events of a queue
EventTypes(queue) == [i \in 1..Len(queue) |-> queue[i].type]

\* AudioFilePlayer::play_file_source with a preloaded source of one frame
\* in the mixer's layout, neither repeated nor faded
PlayListedSource ==
    /\ nextId <= MaxListed
    /\ \E start_time \in 0..(MaxTime - 2) :
          /\ event_queue' = Append(event_queue,
                AddSourceMsg(nextId,
                    PreloadedNew(nextId, channel_count, 1, 0, 0, -1),
                    start_time))
          /\ registry' = Append(registry,
                [start |-> start_time, frames |-> 1, eff_start |-> -1])
    /\ playing_map' = playing_map \cup {nextId}
    /\ nextId' = nextId + 1
    /\ UNCHANGED << srcVars, plyVars, events, ctrlSent, channel_count,
                    playing_sources, drop_chan, sink_pos, cb, handled >>

\* AudioFilePlayer::stop_source_at_sample_time, at the last frame
StopListedSource ==
    /\ ctrlSent < MaxRequests
    /\ \E id \in playing_map :
          event_queue' = Append(event_queue, StopSourceMsg(id, MaxTime - 1))
    /\ ctrlSent' = ctrlSent + 1
    /\ UNCHANGED << srcVars, plyVars, events, channel_count, playing_sources,
                    drop_chan, sink_pos, cb, nextId, playing_map, handled,
                    registry >>

\* the sink's output callback, with the history of the write
ListCallback ==
    /\ sink_pos < MaxTime
    /\ \E frames \in {1, MaxBuf} :
          /\ Render(frames, 0)
          /\ prev_write' =
                [kind |-> "mixed",
                 time |-> sink_pos,
                 frames |-> frames,
                 queue |-> EventTypes(event_queue),
                 drain |-> DrainTrace(
                     [playing |-> playing_sources, drop |-> drop_chan,
                      got_new_sources |-> FALSE], event_queue, sink_pos),
                 sorted |-> ListView(MixedSort(MixedProcessEvents(
                     [playing |-> playing_sources, drop |-> drop_chan,
                      got_new_sources |-> FALSE],
                     event_queue, sink_pos)).playing),
                 rendered |-> MixedWrite(
                     [playing |-> playing_sources, queue |-> event_queue,
                      drop |-> drop_chan],
                     [k \in 1..(frames * channel_count) |-> 0],
                     sink_pos, channel_count).rendered]
    /\ UNCHANGED << clone, decodes, user_chan, lock, plyVars >>

\* a mono mixer
InitList == InitMixer /\ channel_count = 1

NextList ==
    \/ PlayListedSource
    \/ StopListedSource
    \/ StopAllSources
    \/ PushRemoveAllSources
    \/ ListCallback

SpecList == InitList /\ [][NextList]_vars

\* the playback ids of the entries
IdsOf(view) == [i \in 1..Len(view) |-> view[i].playback_id]

\* the entries are in the order of their start times
Sorted(view) ==
    \A i, j \in 1..Len(view) :
        i < j => view[i].start_time <= view[j].start_time

\* the entries which start before a frame, in their order
StartingBefore(view, frame) ==
    SelectEntries(view, { i \in 1..Len(view) : view[i].start_time < frame })

\* the entries which start after a frame, in their order
StartingAfter(view, frame) ==
    SelectEntries(view, { i \in 1..Len(view) : view[i].start_time > frame })

\* the list as the events of the last write left it, before the sort
Drained == prev_write.drain[Len(prev_write.drain)].playing

\* C27: at the end of the event loop of every write, and so whenever the
\* sources are rendered, the playing list is sorted by start time, whatever
\* events were handled and whichever sources were retired before; the
\* 'all_sources loop runs every entry which starts before the end of the
\* buffer: its early break skips none of them.
C27_SortedWhenRendered ==
    /\ Sorted(ListView(playing_sources))
    /\ prev_write.kind = "mixed" =>
          /\ Sorted(prev_write.sorted)
          /\ prev_write.rendered =
                IdsOf(StartingBefore(prev_write.sorted,
                                     prev_write.time + prev_write.frames))

\* C27, witness: the events of a write left the list out of order, the
\* write ran an entry and broke off before another
C27_Witness ==
    /\ prev_write.kind = "mixed"
    /\ ~Sorted(Drained)
    /\ Len(prev_write.rendered) >= 1
    /\ Len(prev_write.rendered) < Len(prev_write.sorted)

\* entries of the same start time are in the order of their playback ids,
\* which is the order of their AddSource events
InsertionOrder(view) ==
    \A i, j \in 1..Len(view) :
        (i < j /\ view[i].start_time = view[j].start_time)
            => view[i].playback_id < view[j].playback_id

\* C28: sources of the same start time keep the order of their AddSource
\* events in the playing list, through every later insertion, sort and
\* removal, and each write runs them in that order.
C28_EqualStartKeepsInsertionOrder ==
    /\ InsertionOrder(ListView(playing_sources))
    /\ prev_write.kind = "mixed" =>
          /\ \A k \in 1..Len(prev_write.drain) :
                InsertionOrder(prev_write.drain[k].playing)
          /\ InsertionOrder(prev_write.sorted)
          /\ \A i, j \in 1..Len(prev_write.rendered) :
                (/\ i < j
                 /\ registry[prev_write.rendered[i]].start
                      = registry[prev_write.rendered[j]].start)
                    => prev_write.rendered[i] < prev_write.rendered[j]

\* C28, witness: two entries of the same start time were in the list when
\* a write took over a source which starts before them, sorted the list and
\* ran the two
C28_Witness ==
    /\ prev_write.kind = "mixed"
    /\ ~Sorted(Drained)
    /\ \E a, b \in 1..Len(prev_write.drain[1].playing) :
          /\ a < b
          /\ prev_write.drain[1].playing[a].start_time
                = prev_write.drain[1].playing[b].start_time
          /\ \E i, j \in 1..Len(prev_write.rendered) :
                /\ prev_write.rendered[i]
                      = prev_write.drain[1].playing[a].playback_id
                /\ prev_write.rendered[j]
                      = prev_write.drain[1].playing[b].playback_id

\* C29: RemoveAllPendingSources handled in a callback at frame P removes
\* exactly the entries which start after P and hands each of them to the
\* drop channel once; the entries which start at or before P stay in the
\* list in their order, with their start time, stop time and activity flag.
C29_RemovesExactlyPending ==
    /\ \A i, j \in 1..Len(drop_chan) : drop_chan[i] = drop_chan[j] => i = j
    /\ prev_write.kind = "mixed" =>
          \A k \in 1..Len(prev_write.queue) :
              prev_write.queue[k] = "RemoveAllPendingSources" =>
                  /\ prev_write.drain[k + 1].playing =
                        StartingBefore(prev_write.drain[k].playing,
                                       prev_write.time + 1)
                  /\ prev_write.drain[k + 1].drop =
                        prev_write.drain[k].drop
                        \o IdsOf(StartingAfter(prev_write.drain[k].playing,
                                               prev_write.time))

\* C29, witness: a write handled RemoveAllPendingSources with an entry in
\* the list which started and has a stop time, and an entry which starts
\* later and is in the drop channel now
C29_Witness ==
    /\ prev_write.kind = "mixed"
    /\ \E k \in 1..Len(prev_write.queue) :
          /\ prev_write.queue[k] = "RemoveAllPendingSources"
          /\ \E i, j \in 1..Len(prev_write.drain[k].playing) :
                /\ prev_write.drain[k].playing[i].start_time <= prev_write.time
                /\ prev_write.drain[k].playing[i].stop_time >= 0
                /\ prev_write.drain[k].playing[j].start_time > prev_write.time
                /\ \E d \in 1..Len(drop_chan) :
                      drop_chan[d] = prev_write.drain[k].playing[j].playback_id

\* ------------------------------------------------------------------------
\* The 'source loop of MixedSource::write step by step: the mixer plays a
\* streamed source whose actor runs beside the audio thread.  The source of
\* the playing entry is src; cb = [time, len, total_written, pc] is the
\* write call in progress.
\* ------------------------------------------------------------------------

\* the entry's source: the streamed source src
StreamedRef(id) == [kind |-> "streamed", file_id |-> id]

\* a streamed source was constructed and handed to the mixer
InitStopOnce ==
    /\ InitSourceCommon
    /\ \E cc \in 1..MaxChannels, frames \in 1..MaxFrames :
          /\ src = StreamedNew(1, cc)
          /\ worker = WorkerNew(1, cc, frames, 0)
          /\ channel_count = cc
    /\ shared = SharedNew
    /\ mailbox = << ReadMsg >>
    /\ ring = << >>
    /\ playing_sources = << >>
    /\ event_queue = << AddSourceMsg(1, StreamedRef(1), 0) >>
    /\ drop_chan = << >>
    /\ sink_pos = 0
    /\ cb = [time |-> 0, len |-> 0, total_written |-> 0, pc |-> "idle"]
    /\ nextId = 2
    /\ playing_map = {1}
    /\ handled = 0
    /\ registry = << >>
    /\ NoPlayer
    /\ NotPlayed

\* AudioFilePlayer::stop_source_at_sample_time, called once
ScheduleStop ==
    /\ ctrlSent = 0
    /\ \E id \in playing_map, stop_time \in 0..(MaxTime - 1) :
          event_queue' = Append(event_queue, StopSourceMsg(id, stop_time))
    /\ ctrlSent' = 1
    /\ UNCHANGED << srcVars, plyVars, events, channel_count, playing_sources,
                    drop_chan, sink_pos, cb, nextId, playing_map, handled,
                    registry >>

\* write up to the 'source loop of the entry: the events, the sort and the
\* entry's start; with an empty list the whole call
LoopBegin ==
    /\ cb.pc = "idle"
    /\ sink_pos < MaxTime
    /\ \E frames \in 1..MaxBuf :
          LET m == MixedSort(MixedProcessEvents(
                       [playing |-> playing_sources, drop |-> drop_chan,
                        got_new_sources |-> FALSE], event_queue, sink_pos))
          IN /\ playing_sources' = m.playing
             /\ drop_chan' = m.drop
             /\ IF m.playing = << >>
                THEN /\ cb' = [time |-> sink_pos, len |-> frames * channel_count,
                               total_written |-> 0, pc |-> "idle"]
                     /\ sink_pos' = sink_pos + frames
                ELSE /\ cb' = [time |-> sink_pos, len |-> frames * channel_count,
                               total_written |->
                                   StartOffset(m.playing[1].start_time,
                                               sink_pos, channel_count),
                               pc |-> "source"]
                     /\ UNCHANGED sink_pos
    /\ event_queue' = << >>
    /\ UNCHANGED << srcVars, plyVars, events, ctrlSent, channel_count, nextId,
                    playing_map, handled, registry >>

\* StreamedFileSource::write as one step
StreamedWriteWhole(x, outLen) ==
    IF x.c.playback_finished
    THEN [c |-> x.c, sh |-> x.sh, ring |-> x.ring, out |-> << >>,
          events |-> << >>]
    ELSE [c |-> StreamedFinishWrite(StreamedReadRing(x, outLen)).c,
          sh |-> StreamedFinishWrite(StreamedReadRing(x, outLen)).sh,
          ring |-> StreamedReadRing(x, outLen).ring,
          out |-> StreamedReadRing(x, outLen).out,
          events |-> StreamedFinishWrite(StreamedReadRing(x, outLen)).events]

\* one iteration of the 'source loop, r the source's write; the Stop
\* message, when it is due, carries some fade-out duration
LoopStep(send_stop, r) ==
    /\ \E fadeout \in 0..MaxFade :
          mailbox' = IF send_stop
                     THEN Append(mailbox, [type |-> "Stop", arg |-> fadeout])
                     ELSE mailbox
    /\ src' = r.c
    /\ shared' = r.sh
    /\ ring' = r.ring
    /\ events' = events \o r.events
    /\ playing_sources' =
          [playing_sources EXCEPT
              ![1].stops_sent = IF send_stop THEN @ + 1 ELSE @,
              ![1].is_active = ~StreamedIsExhausted(r.c)]
    /\ cb' = IF StreamedIsExhausted(r.c)
             THEN [cb EXCEPT !.pc = "end"]
             ELSE [cb EXCEPT !.total_written = @ + Len(r.out)]

\* samples_until_stop of the entry in the iteration to come
UntilStop ==
    SamplesUntilStop(playing_sources[1].stop_time,
                     cb.time + (cb.total_written \div channel_count),
                     channel_count)

LoopIteration ==
    /\ cb.pc = "source"
    /\ cb.total_written < cb.len
    /\ playing_sources[1].stops_sent < MaxStopsSent
    /\ LoopStep(UntilStop = 0,
                StreamedWriteWhole(
                    [c |-> src, sh |-> shared, ring |-> ring],
                    ToWrite(cb.len, cb.total_written,
                            IF UntilStop = 0 THEN U64_MAX ELSE UntilStop)))
    /\ UNCHANGED << worker, last, stopSent, auxVars, plyVars, ctrlSent,
                    channel_count, event_queue, drop_chan, sink_pos, nextId,
                    playing_map, handled, registry >>

\* the end of write: the entry is removed when its source is exhausted
LoopEnd ==
    /\ cb.pc = "end" \/ (cb.pc = "source" /\ cb.total_written >= cb.len)
    /\ LET m == RemoveMatchingSources(
                    [playing |-> playing_sources, drop |-> drop_chan],
                    { i \in 1..Len(playing_sources) :
                        ~playing_sources[i].is_active })
       IN /\ playing_sources' = m.playing
          /\ drop_chan' = m.drop
    /\ cb' = [cb EXCEPT !.pc = "idle"]
    /\ sink_pos' = cb.time + (cb.len \div channel_count)
    /\ UNCHANGED << srcVars, plyVars, events, ctrlSent, channel_count,
                    event_queue, nextId, playing_map, handled, registry >>

NextStopOnce ==
    \/ ScheduleStop
    \/ LoopBegin
    \/ LoopIteration
    \/ LoopEnd
    \/ WorkerReceive
    \/ WorkerTimeout

SpecStopOnce == InitStopOnce /\ [][NextStopOnce]_vars

\* C30: for each stop scheduled with StopSource the mixer sends the Stop
\* message to the source at most once: no later iteration of the same
\* callback, also one in which the source wrote no sample, and no later
\* callback sends it again.
C30_StopSentOnce ==
    \A i \in 1..Len(playing_sources) : playing_sources[i].stops_sent <= 1

\* ------------------------------------------------------------------------
\* The status events: a file source which reports its position is written
\* by the audio thread, the player's message thread forwards its events to
\* the user's channel
\* ------------------------------------------------------------------------

\* the Position events among the first n status events
RECURSIVE PositionsAmong(_)
PositionsAmong(n) ==
    IF n = 0 THEN 0
    ELSE PositionsAmong(n - 1)
         + (IF events[n].type = "Position" THEN 1 ELSE 0)

\* a mono file source, preloaded or streamed, was handed to the mixer
InitStatus ==
    /\ InitSourceCommon
    /\ \/ /\ \E frames \in 1..MaxFrames, repeat \in 0..MaxRepeat,
                fade_out \in {-1, MaxFade} :
                src = PreloadedNew(1, 1, frames, repeat, 0, fade_out)
          /\ worker = [WorkerNew(1, 1, 0, 0) EXCEPT !.act = "Shutdown"]
          /\ mailbox = << >>
       \/ /\ src = StreamedNew(1, 1)
          /\ \E frames \in 1..MaxFrames : worker = WorkerNew(1, 1, frames, 0)
          /\ mailbox = << ReadMsg >>
    /\ shared = SharedNew
    /\ ring = << >>
    /\ channel_count = 1
    /\ playing_sources = << >>
    /\ event_queue = << >>
    /\ drop_chan = << >>
    /\ sink_pos = 0
    /\ cb = [time |-> 0, out |-> << >>, ret |-> 0, listed |-> 0,
             produced |-> << >>, mixed |-> << >>]
    /\ nextId = 2
    /\ playing_map = {1}
    /\ handled = 0
    /\ registry = << >>
    /\ NoPlayer
    /\ NotPlayed

\* PreloadedFileSource::write in the mixer's callback
StatusWrite ==
    /\ src.kind = "preloaded"
    /\ drop_chan = << >>
    /\ \E outLen \in 1..MaxWrite, report \in BOOLEAN :
          /\ report => PositionsAmong(Len(events)) < MaxPositions
          /\ src' = PreloadedWriteReporting(src, outLen, report).s
          /\ events' = events
                \o PreloadedWriteReporting(src, outLen, report).events
          /\ last' = [op |-> "write",
                      ret |-> Len(PreloadedWriteReporting(src, outLen,
                                                          report).out)]
    /\ UNCHANGED << shared, worker, mailbox, ring, ctrlSent, stopSent,
                    auxVars, mixVars >>

\* StreamedFileSource::write in the mixer's callback
StatusStreamedWrite ==
    /\ src.kind = "streamed"
    /\ drop_chan = << >>
    /\ ~src.playback_finished
    /\ \E outLen \in 1..MaxWrite, report \in BOOLEAN :
          /\ report => PositionsAmong(Len(events)) < MaxPositions
          /\ src' = StreamedFinishWriteReporting(
                        StreamedReadRing([c |-> src, sh |-> shared,
                                          ring |-> ring], outLen), report).c
          /\ shared' = StreamedFinishWriteReporting(
                        StreamedReadRing([c |-> src, sh |-> shared,
                                          ring |-> ring], outLen), report).sh
          /\ events' = events \o StreamedFinishWriteReporting(
                        StreamedReadRing([c |-> src, sh |-> shared,
                                          ring |-> ring], outLen), report).events
          /\ ring' = StreamedReadRing([c |-> src, sh |-> shared,
                                       ring |-> ring], outLen).ring
          /\ last' = [op |-> "write",
                      ret |-> Len(StreamedReadRing([c |-> src, sh |-> shared,
                                      ring |-> ring], outLen).out)]
    /\ UNCHANGED << worker, mailbox, ctrlSent, stopSent, auxVars, mixVars >>

\* MixedSource::write: the entry of the exhausted source is removed and
\* handed to the drop channel
StatusRetire ==
    /\ IsExhausted(src)
    /\ drop_chan = << >>
    /\ drop_chan' = << src.file_id >>
    /\ UNCHANGED << srcVars, plyVars, events, ctrlSent, channel_count,
                    playing_sources, event_queue, sink_pos, cb, nextId,
                    playing_map, handled, registry >>

\* faulty variant of StatusForward: Stopped events are not forwarded
StatusForwardsPositions ==
    /\ handled > forwarded
    /\ forwarded' = forwarded + 1
    /\ user_chan' = IF events[handled].type = "Stopped" THEN user_chan
                    ELSE Append(user_chan, events[handled])
    /\ UNCHANGED << src, shared, worker, mailbox, ring, last, stopSent, clone,
                    decodes, prev_write, lock, events, ctrlSent,
                    channel_count,
                    playing_sources, event_queue, drop_chan, sink_pos, cb,
                    nextId, playing_map, handled, registry, result, stop_all,
                    drop_recv, dying, freed_by, mixer_open, allocs,
                    stops_by_player, played >>

\* handle_events: the message thread sends the event it received to the
\* user's channel, which is unbounded
StatusForward ==
    /\ handled > forwarded
    /\ forwarded' = forwarded + 1
    /\ user_chan' = Append(user_chan, events[handled])
    /\ UNCHANGED << src, shared, worker, mailbox, ring, last, stopSent, clone,
                    decodes, prev_write, lock, events, ctrlSent,
                    channel_count,
                    playing_sources, event_queue, drop_chan, sink_pos, cb,
                    nextId, playing_map, handled, registry, result, stop_all,
                    drop_recv, dying, freed_by, mixer_open, allocs,
                    stops_by_player, played >>

NextStatus ==
    \/ StatusWrite
    \/ StatusStreamedWrite
    \/ StatusRetire
    \/ WorkerReceive
    \/ SendSeek
    \/ SendStop
    \/ MsgReceive
    \/ StatusForward
    \/ MsgDrop

SpecStatus == InitStatus /\ [][NextStatus]_vars

\* the events of one playback id, in their order
EventsOf(seq, id) ==
    SelectEntries(seq, { i \in 1..Len(seq) : seq[i].id = id })

\* the ids of the events of a channel
IdsIn(seq) == { seq[i].id : i \in 1..Len(seq) }

IsPrefix(a, b) == Len(a) <= Len(b) /\ a = SubSeq(b, 1, Len(a))

\* C23: the status events the user's channel receives for one playback id
\* are in the order the source emitted them, and Stopped is terminal: after
\* the Stopped event of an id neither a Position event nor another Stopped
\* event of that id is delivered.
C23_OrderedAndStoppedIsTerminal ==
    \A id \in IdsIn(events) \cup IdsIn(user_chan) :
        /\ IsPrefix(EventsOf(user_chan, id), EventsOf(events, id))
        /\ \A i, j \in 1..Len(user_chan) :
              (i < j /\ user_chan[i].id = id /\ user_chan[i].type = "Stopped")
                  => user_chan[j].id # id

\* C23, witness: the user's channel holds a Position event and then the
\* Stopped event of a source, every event was forwarded, and the source was
\* written once more after it had finished
C23_Witness ==
    /\ Len(user_chan) >= 2
    /\ user_chan[1].type = "Position"
    /\ user_chan[Len(user_chan)].type = "Stopped"
    /\ forwarded = Len(events)
    /\ IsExhausted(src)
    /\ last = [op |-> "write", ret |-> 0]

\* the message thread runs: it blocks in select on its two channels, and
\* select takes one of the ready channels at random
SpecStatusFair ==
    /\ InitStatus
    /\ [][NextStatus]_vars
    /\ WF_vars(MsgReceive)
    /\ WF_vars(StatusForward)

\* C24: with an unbounded user channel whose receiver is alive every
\* Stopped event a source emits is eventually delivered to that channel:
\* neither the source's send into the proxy channel nor the forwarding of
\* the message thread drops it, whatever Position events and drop events
\* come in between.
C24_StoppedIsDelivered ==
    \A k \in 1..(MaxPositions + 1) :
        (Len(events) >= k /\ events[k].type = "Stopped")
            ~> (Len(user_chan) >= k /\ user_chan[k] = events[k])

\* C24, witness: the Stopped event of a source reached the user's channel
\* after its Position events, and the message thread has received the drop
\* event of the source
C24_Witness ==
    /\ drop_recv = 1
    /\ Len(user_chan) = MaxPositions + 1
    /\ user_chan[MaxPositions + 1] = events[MaxPositions + 1]
    /\ user_chan[MaxPositions + 1].type = "Stopped"
    /\ \A k \in 1..MaxPositions : user_chan[k].type = "Position"

\* ------------------------------------------------------------------------
\* The decoder actor of a streamed source, step by step: the load of
\* is_playing at the top of on_read and the rest of on_read are two steps,
\* the consumer's write is two steps as well, and the source can be dropped.
\* prev_write keeps the history of what the actor and the consumer did.
\* ------------------------------------------------------------------------

\* what is remembered of the last message the actor handled: chains is the
\* number of Read messages which were on their way when it arrived
HandledMsg(msg, ok, chains, was_playing, sh, act) ==
    [ type |-> msg.type, arg |-> msg.arg, ok |-> ok,
      chains |-> chains,
      was_playing |-> was_playing,
      is_playing |-> sh.is_playing,
      is_fading_out |-> sh.is_fading_out,
      fade_out_duration |-> sh.fade_out_duration,
      act |-> act ]

HandledRead == HandledMsg(ReadMsg, TRUE, 1, TRUE, SharedNew, "Continue")

\* seeks: the successful seeks handled; epoch: seeks when input_packet was
\* decoded; put_stale: samples of a packet decoded before the last seek
\* were put into the ring buffer; decoded, put: the packets read and the
\* samples put into the ring buffer before the first seek
ActorHistoryNew ==
    [ kind |-> "actor",
      seeks |-> 0,
      epoch |-> 0,
      put_stale |-> FALSE,
      decoded |-> << >>,
      put |-> << >>,
      rewinds |-> 0,
      msg |-> HandledRead,
      fader_starts |-> 0,
      finish |-> [kind |-> "none"],
      late_reads |-> 0,
      dropped |-> FALSE ]

InitActor ==
    /\ events = << >>
    /\ last = [op |-> "new", ret |-> 0]
    /\ ctrlSent = 0
    /\ stopSent = FALSE
    /\ clone = [kind |-> "none"]
    /\ decodes = 0
    /\ user_chan = << >>
    /\ lock = LockFree
    /\ prev_write = ActorHistoryNew
    /\ NoMixer
    /\ NotPlayed
    /\ \E cc \in 1..MaxChannels, frames \in 1..MaxFrames, repeat \in 0..MaxRepeat :
          /\ src = StreamedNew(1, cc)
          /\ worker = WorkerNew(1, cc, frames, repeat)
    /\ shared = SharedNew
    /\ mailbox = << ReadMsg >>
    /\ ring = << >>

\* the number of Read messages on their way: in the channel, being handled,
\* or pending as the timeout message of a wait
ReadChains ==
    Cardinality({ i \in 1..Len(mailbox) : mailbox[i].type = "Read" })
    + (IF worker.act \in {"Reading", "WaitOr"} THEN 1 ELSE 0)

ActorState(rest) ==
    [w |-> worker, sh |-> shared, ring |-> ring, mailbox |-> rest]

\* the actor's variables after a handler has returned r
ActorBecomes(r) ==
    /\ worker' = r.w
    /\ shared' = r.sh
    /\ ring' = r.ring
    /\ mailbox' = r.mailbox
    /\ last' = [op |-> "other", ret |-> 0]
    /\ UNCHANGED << src, events, ctrlSent, stopSent, clone, decodes,
                    user_chan, lock, played, engineVars >>

\* on_read up to the load of is_playing: the handler goes on when the
\* source is playing
ActorBeginRead(rest) ==
    IF shared.is_playing
    THEN /\ ActorBecomes([ActorState(rest) EXCEPT !.w.act = "Reading"])
         /\ prev_write' = [prev_write EXCEPT !.msg = HandledRead]
    ELSE /\ ActorBecomes(WorkerOnRead(ActorState(rest)))
         /\ prev_write' = [prev_write EXCEPT !.msg = HandledRead]

\* on_stop and on_seek
ActorHandle(msg, rest) ==
    LET r == WorkerHandle(ActorState(rest), msg)
        ok == msg.type = "Seek" => DecoderSeek(worker, msg.arg) >= 0
    IN /\ ActorBecomes(r)
       /\ prev_write' =
            [prev_write EXCEPT
               !.seeks = IF msg.type = "Seek" /\ ok THEN @ + 1 ELSE @,
               !.msg = HandledMsg(msg, ok, ReadChains + 0, shared.is_playing,
                                  r.sh, r.w.act)]

\* the actor loop receives a message and handles it
ActorReceive ==
    /\ worker.act \in {"Continue", "WaitOr"}
    /\ mailbox # << >>
    /\ IF Head(mailbox).type = "Read"
       THEN ActorBeginRead(Tail(mailbox))
       ELSE ActorHandle(Head(mailbox), Tail(mailbox))

\* the actor loop waits on a full ring buffer, no message arrives in time
\* and it handles the timeout message Read
ActorTimeout ==
    /\ worker.act = "WaitOr"
    /\ mailbox = << >>
    /\ ActorBeginRead(mailbox)

\* on_read from the load of is_playing on
ActorRead ==
    /\ worker.act = "Reading"
    /\ LET r == WorkerReadStep(ActorState(mailbox))
           flushed == SubSeq(r.ring, Len(ring) + 1, Len(r.ring))
           reads == ~(worker.stw_start < worker.stw_end)
           packet == IF reads THEN DecoderReadPacket(worker) ELSE << >>
           first == prev_write.seeks = 0
       IN /\ ActorBecomes(r)
          /\ prev_write' =
               [prev_write EXCEPT
                  !.put = IF first THEN @ \o flushed ELSE @,
                  !.put_stale = @ \/ (flushed # << >>
                                      /\ prev_write.epoch < prev_write.seeks),
                  !.decoded = IF first THEN @ \o packet ELSE @,
                  !.rewinds = IF first /\ reads /\ packet = << >>
                                 /\ worker.repeat > 0
                              THEN @ + 1 ELSE @,
                  !.epoch = IF packet # << >> THEN prev_write.seeks ELSE @,
                  !.late_reads = IF reads /\ ~shared.is_playing
                                 THEN @ + 1 ELSE @]

\* the fader was started by a write which found it as f0 and left it as f1
FaderStarted(f0, f1) ==
    \/ f0.state = "Stopped" /\ f1.state # "Stopped"
    \/ f0.state = "Finished" /\ f1.state # "Finished"
    \/ f0.state = f1.state /\ f1.left > f0.left

\* StreamedFileSource::write up to the read of the ring buffer
ActorWriteBegin ==
    /\ ~prev_write.dropped
    /\ src.pc = "idle"
    /\ \E outLen \in 1..MaxWrite :
          LET r == StreamedReadRing([c |-> src, sh |-> shared, ring |-> ring],
                                    outLen)
          IN /\ src' = r.c
             /\ shared' = r.sh
             /\ ring' = r.ring
             /\ last' = IF src.playback_finished
                        THEN [op |-> "write", ret |-> 0]
                        ELSE [op |-> "other", ret |-> 0]
    /\ UNCHANGED << worker, mailbox, events, ctrlSent, stopSent, auxVars,
                    played, engineVars >>

\* StreamedFileSource::write from the loads of the shared flags on
ActorWriteEnd ==
    /\ src.pc = "mid"
    /\ LET r == StreamedFinishWrite([c |-> src, sh |-> shared, ring |-> ring])
       IN /\ src' = r.c
          /\ shared' = r.sh
          /\ events' = events \o r.events
          /\ last' = [op |-> "write", ret |-> src.written]
          /\ prev_write' =
               [prev_write EXCEPT
                  !.fader_starts =
                     IF FaderStarted(src.stop_fader, r.c.stop_fader)
                     THEN @ + 1 ELSE @,
                  !.finish =
                     IF r.c.playback_finished
                     THEN [ kind |-> "stopped",
                            exhausted |-> r.events[Len(r.events)].exhausted,
                            fader |-> r.c.stop_fader.state,
                            was_playing |-> shared.is_playing,
                            ring_left |-> Len(ring),
                            pending |-> worker.stw_end - worker.stw_start,
                            at_end |-> /\ worker.dec_pos = worker.file_len
                                       /\ worker.repeat = 0
                                       /\ worker.act # "Reading" ]
                     ELSE @]
    /\ UNCHANGED << worker, mailbox, ring, ctrlSent, stopSent, clone, decodes,
                    user_chan, lock, played, engineVars >>

\* Drop for StreamedFileSource: Stop(0) is sent to the actor, an actor which
\* has shut down no longer receives it
DropSource ==
    /\ ~prev_write.dropped
    /\ src.pc = "idle"
    /\ mailbox' = IF worker.act = "Shutdown" THEN mailbox
                  ELSE Append(mailbox, [type |-> "Stop", arg |-> 0])
    /\ prev_write' = [prev_write EXCEPT !.dropped = TRUE]
    /\ last' = [op |-> "other", ret |-> 0]
    /\ UNCHANGED << src, shared, worker, ring, events, ctrlSent, stopSent,
                    clone, decodes, user_chan, lock, played, engineVars >>

NextActor ==
    \/ ActorReceive
    \/ ActorTimeout
    \/ ActorRead
    \/ ActorWriteBegin
    \/ ActorWriteEnd
    \/ DropSource
    \/ SendSeek
    \/ SendStop

SpecActor == InitActor /\ [][NextActor]_vars

\* the last message the actor handled is a Seek which the decoder followed
SeekHandled == prev_write.msg.type = "Seek" /\ prev_write.msg.ok

\* C31: once the actor has handled a Seek successfully, nothing decoded
\* before the seek is put into the ring buffer: the seek leaves no leftover
\* and an empty ring buffer in every state of the actor, and one chain of
\* Read messages goes on
C31_SeekDropsLeftover ==
    /\ ~prev_write.put_stale
    /\ SeekHandled => /\ worker.stw_start = worker.stw_end
                      /\ ring = << >>
                      /\ ReadChains = 1

\* the parts of C31, each on its own
C31_NoStaleSample == ~prev_write.put_stale

C31_OneReadChain == SeekHandled => ReadChains = 1

\* the first n samples the decoder delivers of a file of len samples which
\* it plays again and again
DecodedRun(id, len, n) == [k \in 1..n |-> BufferSample(id, (k - 1) % len)]

\* what the actor put into the ring buffer followed by the leftover of the
\* last packet is what the decoder delivered, packet by packet in order
PutIsDecoded ==
    /\ prev_write.decoded
         = DecodedRun(1, worker.file_len, Len(prev_write.decoded))
    /\ prev_write.put \o SubSeq(worker.input_packet, worker.stw_start + 1,
                                worker.stw_end)
         = prev_write.decoded

\* C32: as long as the actor has handled no Seek, the samples it puts into
\* the ring buffer are the decoded packets in order, nothing skipped or put
\* twice and no packet read while a leftover is pending, and
\* samples_written is the number of samples put into the ring buffer since
\* the decoder was last rewound for a repeat
C32_RingGetsPacketsInOrder ==
    prev_write.seeks = 0 =>
        /\ PutIsDecoded
        /\ worker.samples_written
             = Len(prev_write.put) - prev_write.rewinds * worker.file_len

\* C32 as stated: samples_written is the number of all samples put into
\* the ring buffer
C32_SamplesWrittenCountsAll ==
    prev_write.seeks = 0 =>
        /\ PutIsDecoded
        /\ worker.samples_written = Len(prev_write.put)

\* the ring buffer took a part of a packet and is full again, after a
\* rewind
C32_Witness ==
    /\ prev_write.seeks = 0
    /\ prev_write.rewinds = 1
    /\ worker.act = "WaitOr"
    /\ worker.stw_start = 1
    /\ worker.stw_end = 2

\* the last message the actor handled is Stop(d) with these d
StopHandled(ds) == prev_write.msg.type = "Stop" /\ prev_write.msg.arg \in ds

\* the actor which was decoding when Stop(d), d > 0, arrived still is
C33_KeepsDecoding ==
    StopHandled(1..MaxFade) /\ prev_write.msg.chains >= 1 => ReadChains >= 1

\* what Stop(d) does to the shared state and the actor, and what the
\* consumer does when it fades out
C33_StopEffects ==
    /\ StopHandled({0}) => /\ ~prev_write.msg.is_playing
                           /\ prev_write.msg.act = "Shutdown"
    /\ StopHandled(1..MaxFade) =>
          /\ prev_write.msg.fade_out_duration = prev_write.msg.arg
          /\ prev_write.msg.is_fading_out
          /\ prev_write.msg.is_playing = prev_write.msg.was_playing
          /\ prev_write.msg.act = "Continue"
    /\ prev_write.fader_starts <= 1
    /\ prev_write.fader_starts = 1 => shared.is_fading_out
    /\ ( /\ prev_write.finish.kind = "stopped"
         /\ ~prev_write.finish.exhausted
         /\ prev_write.finish.was_playing )
       => prev_write.finish.fader = "Finished"

\* C33: Stop(0) sets is_playing to false and shuts the actor down; Stop(d),
\* d > 0, stores the duration, sets is_fading_out, leaves is_playing alone
\* and the actor goes on decoding; the consumer starts its fader once and
\* emits Stopped{exhausted=false} only when the fade has finished
C33_StopFadesLiveAudio == C33_StopEffects /\ C33_KeepsDecoding

\* the streamed source which is stopped and dropped but not sought; the
\* actor thread runs: a message in its channel is received, a wait times
\* out, a handler which has begun goes on
NextDrop ==
    \/ ActorReceive
    \/ ActorTimeout
    \/ ActorRead
    \/ ActorWriteBegin
    \/ ActorWriteEnd
    \/ DropSource
    \/ SendStop

SpecDropFair ==
    /\ InitActor
    /\ [][NextDrop]_vars
    /\ WF_vars(ActorReceive)
    /\ WF_vars(ActorTimeout)
    /\ WF_vars(ActorRead)

\* once the source is dropped the actor shuts down
DropShutsDown == prev_write.dropped ~> worker.act = "Shutdown"

\* C34: once the source is dropped the actor shuts down, whatever it was
\* doing, and once is_playing is false it reads nothing from the decoder
\* but what an on_read which had loaded is_playing before has yet to read
C34_DropEndsDecoding ==
    DropShutsDown /\ [](prev_write.late_reads <= 1)

\* C34 as stated: the actor reads nothing from the decoder once is_playing
\* is false
C34_NoReadAfterFinish ==
    DropShutsDown /\ [](prev_write.late_reads = 0)

\* the actor of a dropped source has shut down, after a read which came
\* late
C34_Witness ==
    /\ prev_write.dropped
    /\ worker.act = "Shutdown"
    /\ prev_write.late_reads = 1

\* the source has finished with Stopped{exhausted=true}
FinishedExhausted ==
    prev_write.finish.kind = "stopped" /\ prev_write.finish.exhausted

\* end_of_file does not stay true when a Seek has the actor decode again
C35_SeekClearsEndOfFile == SeekHandled => ~shared.end_of_file

\* when the source finished as exhausted, the ring buffer was empty and
\* the actor had nothing left to put into it
C35_ExhaustedAtTheEnd ==
    FinishedExhausted => /\ prev_write.finish.ring_left = 0
                         /\ prev_write.finish.pending = 0
                         /\ prev_write.finish.at_end

\* C35: a streamed source finishes with Stopped{exhausted=true} only when
\* the consumer has read all the actor has delivered and will deliver: a
\* read of 0 samples from a ring buffer which is empty for the moment does
\* not finish it, and end_of_file does not stay true when the actor
\* decodes again after a Seek
C35_ExhaustedMeansAllPlayed ==
    C35_ExhaustedAtTheEnd /\ C35_SeekClearsEndOfFile

\* ------------------------------------------------------------------------
\* ResampledSource (source/resampled.rs) around a preloaded file source,
\* input rate = output rate
\* ------------------------------------------------------------------------

\* AudioResampler::input_buffer_len, output_buffer_len
ResampleBufferLen(cc) == ResampleFrames * cc

\* ResampledSource::new_with_speed: the buffers are empty
ResampledNew(source) ==
    [ kind |-> "resampled",
      source |-> source,
      input_buffer |-> [k \in 1..ResampleBufferLen(source.buffer_channel_count) |-> 0],
      in_start |-> 0,
      in_end |-> 0,
      output_buffer |-> << >>,
      out_start |-> 0,
      out_end |-> 0 ]

\* n samples of silence
Zeros(n) == [k \in 1..n |-> 0]

\* write, the refill of the input buffer, given the result r of the inner
\* source's write into it: what the source leaves is zeroed; x = [s, events]
ResampledInputFilled(x, r) ==
    [ s |-> [x.s EXCEPT !.source = r.s,
                        !.input_buffer = r.out \o Zeros(Len(@) - Len(r.out)),
                        !.in_start = 0,
                        !.in_end = Len(x.s.input_buffer)],
      events |-> x.events \o r.events ]

\* write, the refill of the input buffer: the inner source writes into it
ResampledFillInput(x) ==
    ResampledInputFilled(x, PreloadedWrite(x.s.source, Len(x.s.input_buffer)))

\* write, the resampler processes n samples of the input buffer into the
\* output buffer
ResampledProcessed(y, n) ==
    [ s |-> [y.s EXCEPT
               !.output_buffer = SubSeq(y.s.input_buffer, y.s.in_start + 1,
                                        y.s.in_start + n),
               !.in_start = @ + n,
               !.out_start = 0,
               !.out_end = n],
      events |-> y.events ]

\* write, the resampler runs on what the input buffer holds
ResampledProcess(y) ==
    ResampledProcessed(y, ResamplerProcess(Len(y.s.input_buffer) - y.s.in_start,
                                           Len(y.s.input_buffer)))

\* write, the refill of the output buffer from the input buffer
ResampledFillOutput(x) ==
    ResampledProcess(IF x.s.in_start >= x.s.in_end
                     THEN ResampledFillInput(x) ELSE x)

\* write, the loop: x = [s, events], out = what is written so far
RECURSIVE ResampledWriteLoop(_, _, _)

\* write, the loop's copy of written samples from the output buffer
ResampledCopy(y, out, outLen, written) ==
    ResampledWriteLoop(
        [y EXCEPT !.s.out_start = @ + written],
        out \o SubSeq(y.s.output_buffer, y.s.out_start + 1,
                      y.s.out_start + written),
        outLen)

\* write, the loop's step on a filled output buffer
ResampledWriteStep(y, out, outLen) ==
    ResampledCopy(y, out, outLen,
                  Min(y.s.out_end - y.s.out_start, outLen - Len(out)))

ResampledWriteLoop(x, out, outLen) ==
    IF Len(out) >= outLen
    THEN [s |-> x.s, out |-> out, events |-> x.events]
    ELSE ResampledWriteStep(IF x.s.out_start >= x.s.out_end
                            THEN ResampledFillOutput(x) ELSE x,
                            out, outLen)

\* ResampledSource::write
ResampledWrite(s, outLen) ==
    ResampledWriteLoop([s |-> s, events |-> << >>], << >>, outLen)

\* ResampledSource::is_exhausted
ResampledIsExhausted(s) ==
    PreloadedIsExhausted(s.source) /\ s.in_start >= s.in_end

\* a resampled preloaded source; prev_write.was_exhausted: is_exhausted
\* was true before the last operation
InitResampled ==
    /\ events = << >>
    /\ last = [op |-> "new", ret |-> 0]
    /\ ctrlSent = 0
    /\ stopSent = FALSE
    /\ clone = [kind |-> "none"]
    /\ decodes = 0
    /\ user_chan = << >>
    /\ lock = LockFree
    /\ prev_write = [kind |-> "resampled", was_exhausted |-> FALSE]
    /\ NoMixer
    /\ NotPlayed
    /\ \E cc \in 1..MaxChannels, frames \in 1..MaxFrames, repeat \in RepeatCounts,
          fade_out \in (-1)..MaxFade :
          src = ResampledNew(PreloadedNew(1, cc, frames, repeat, 0, fade_out))
    /\ shared = SharedNew
    /\ worker = [WorkerNew(1, 1, 0, 0) EXCEPT !.act = "Shutdown"]
    /\ mailbox = << >>
    /\ ring = << >>

\* the resampled source is asked for outLen samples
ResampledWriteCall ==
    /\ \E outLen \in 1..MaxWrite :
          LET r == ResampledWrite(src, outLen)
          IN /\ src' = r.s
             /\ events' = events \o r.events
             /\ last' = [op |-> "write", ret |-> Len(r.out)]
    /\ prev_write' = [prev_write EXCEPT
                        !.was_exhausted = @ \/ ResampledIsExhausted(src)]
    /\ UNCHANGED << shared, worker, mailbox, ring, ctrlSent, stopSent, clone,
                    decodes, user_chan, lock, mixVars >>

\* a Seek or Stop message is sent to the file source inside
ResampledSend ==
    /\ ctrlSent < MaxCtrl
    /\ \E msg \in { [type |-> "Seek", arg |-> ticks] : ticks \in {0, 2} }
                  \cup { [type |-> "Stop", arg |-> 0] } :
          src' = [src EXCEPT !.source.msgs = Append(@, msg)]
    /\ ctrlSent' = ctrlSent + 1
    /\ last' = [op |-> "other", ret |-> 0]
    /\ prev_write' = [prev_write EXCEPT
                        !.was_exhausted = @ \/ ResampledIsExhausted(src)]
    /\ UNCHANGED << shared, worker, mailbox, ring, events, stopSent, clone,
                    decodes, user_chan, lock, mixVars >>

NextResampled == ResampledWriteCall \/ ResampledSend

SpecResampled == InitResampled /\ [][NextResampled]_vars

\* C36: once is_exhausted() of a ResampledSource has returned true it
\* stays true, and every later write returns 0
C36_ExhaustedIsSticky ==
    prev_write.was_exhausted =>
        /\ ResampledIsExhausted(src)
        /\ last.op = "write" => last.ret = 0

\* ------------------------------------------------------------------------
\* The 'source loop of MixedSource::write with a streamed source, the audio
\* thread running: an iteration which is due is made, a write which is over
\* returns.  Nothing is assumed of the decoder actor's thread.
\* ------------------------------------------------------------------------

SpecLoopFair ==
    /\ InitStopOnce
    /\ [][NextStopOnce]_vars
    /\ WF_vars(LoopIteration)
    /\ WF_vars(LoopEnd)

C38_ListWithinCapacity == Len(playing_sources) <= PLAYING_EVENTS_CAPACITY

\* ------------------------------------------------------------------------
\* The Mutex of the player's map (playing_sources in player.rs): the
\* control thread holds it for the length of a call, the message thread
\* while it removes the id of a stopped source, the audio thread runs the
\* callback.  The user's status channel may be bounded and is read by the
\* user when they like.
\* ------------------------------------------------------------------------

InitLock == InitMixer /\ channel_count = 1

\* the calls of the control thread: what is called, and for which source
LockCalls ==
    [op : {"play_file_source", "seek_source", "stop_source",
           "stop_source_at_sample_time"},
     id : 1..MaxPlayerSources]

\* playing_sources.lock() in a call of the player: the thread goes on
\* when nobody holds the lock
ControlLock ==
    /\ lock.holder = "none"
    /\ \E call \in LockCalls :
          /\ IF call.op = "play_file_source"
             THEN /\ call.id = nextId
                  /\ nextId <= MaxPlayerSources
                  /\ UNCHANGED ctrlSent
             ELSE /\ ctrlSent < MaxRequests
                  /\ ctrlSent' = ctrlSent + 1
          /\ lock' = [lock EXCEPT !.holder = "control", !.call = call]
    /\ UNCHANGED << src, shared, worker, mailbox, ring, last, stopSent, clone,
                    decodes, prev_write, user_chan, events, mixVars >>

\* what the call does to the player's state while it holds the lock
ControlCall(p, call) ==
    CASE call.op = "play_file_source" ->
           PlayerPlay(p, call.id,
                      PreloadedNew(call.id, channel_count, 1, 0, 0, -1), 0)
      [] call.op = "seek_source" -> PlayerSeekSource(p, call.id, 0)
      [] call.op = "stop_source" -> PlayerStopSource(p, call.id)
      [] call.op = "stop_source_at_sample_time" ->
           PlayerStopSourceAt(p, call.id, MaxTime - 1)

\* the rest of the call: the map is looked at or changed, the message is
\* sent, and the guard is dropped when the call returns
ControlRun ==
    /\ lock.holder = "control"
    /\ PlayerStateBecomes(ControlCall(PlayerState, lock.call))
    /\ IF lock.call.op = "play_file_source"
       THEN /\ nextId' = nextId + 1
            /\ allocs' = Append(allocs, [id |-> lock.call.id, kind |-> "File"])
            /\ registry' = Append(registry,
                              [start |-> 0, frames |-> 1, eff_start |-> -1])
       ELSE UNCHANGED << nextId, allocs, registry >>
    /\ lock' = [lock EXCEPT !.holder = "none", !.call = LockFree.call]
    /\ UNCHANGED << src, shared, worker, mailbox, ring, last, stopSent, clone,
                    decodes, prev_write, user_chan, events, ctrlSent,
                    channel_count, drop_chan, sink_pos, cb, handled, result,
                    stop_all, forwarded, drop_recv, dying, freed_by,
                    mixer_open, stops_by_player, played >>

\* the audio thread: the callback of one frame; prev_write keeps who held
\* and who awaited the lock when it ran
AudioCallback ==
    /\ sink_pos < MaxTime
    /\ Render(1, 0)
    /\ prev_write' = [kind |-> "callback", holder |-> lock.holder,
                      msg |-> lock.msg]
    /\ UNCHANGED << clone, decodes, user_chan, lock, plyVars >>

\* handle_events: the message thread receives a status event
MsgTake ==
    /\ lock.msg = "idle"
    /\ handled < Len(events)
    /\ handled' = handled + 1
    /\ lock' = [lock EXCEPT
                  !.msg = IF events[handled + 1].type = "Stopped"
                          THEN "lock" ELSE "forward"]
    /\ UNCHANGED << src, shared, worker, mailbox, ring, last, stopSent, clone,
                    decodes, prev_write, user_chan, events, ctrlSent,
                    channel_count, playing_sources, event_queue, drop_chan,
                    sink_pos, cb, nextId, playing_map, registry, plyVars >>

\* handle_events, playing_sources.lock() for a Stopped event
MsgLock ==
    /\ lock.msg = "lock"
    /\ lock.holder = "none"
    /\ lock' = [lock EXCEPT !.holder = "messages", !.msg = "remove"]
    /\ UNCHANGED << src, shared, worker, mailbox, ring, last, stopSent, clone,
                    decodes, prev_write, user_chan, events, ctrlSent, mixVars >>

\* faulty variant of MsgRemove: the guard lives until the event is sent on
MsgRemoveKeepsLock ==
    /\ lock.msg = "remove"
    /\ playing_map' = HandleStopped(playing_map, events[handled])
    /\ lock' = [lock EXCEPT !.msg = "forward"]
    /\ UNCHANGED << src, shared, worker, mailbox, ring, last, stopSent, clone,
                    decodes, prev_write, user_chan, events, ctrlSent,
                    channel_count, playing_sources, event_queue, drop_chan,
                    sink_pos, cb, nextId, handled, registry, plyVars >>

\* handle_events, remove(&id): the guard is a temporary of the statement
MsgRemove ==
    /\ lock.msg = "remove"
    /\ playing_map' = HandleStopped(playing_map, events[handled])
    /\ lock' = [lock EXCEPT !.holder = "none", !.msg = "forward"]
    /\ UNCHANGED << src, shared, worker, mailbox, ring, last, stopSent, clone,
                    decodes, prev_write, user_chan, events, ctrlSent,
                    channel_count, playing_sources, event_queue, drop_chan,
                    sink_pos, cb, nextId, handled, registry, plyVars >>

\* handle_events, sender.send(event): the thread goes on when the user's
\* channel has room
MsgSend ==
    /\ lock.msg = "forward"
    /\ Len(user_chan) < UserChanCapacity
    /\ user_chan' = Append(user_chan, events[handled])
    /\ forwarded' = handled
    /\ lock' = [lock EXCEPT !.msg = "idle"]
    /\ UNCHANGED << src, shared, worker, mailbox, ring, last, stopSent, clone,
                    decodes, prev_write, events, ctrlSent, channel_count,
                    playing_sources, event_queue, drop_chan, sink_pos, cb,
                    nextId, playing_map, handled, registry, result, stop_all,
                    drop_recv, dying, freed_by, mixer_open, allocs,
                    stops_by_player, played >>

\* the user receives an event from their channel
UserReceive ==
    /\ user_chan # << >>
    /\ user_chan' = Tail(user_chan)
    /\ UNCHANGED << src, shared, worker, mailbox, ring, last, stopSent, clone,
                    decodes, prev_write, lock, events, ctrlSent, mixVars >>

NextLock ==
    \/ ControlLock
    \/ ControlRun
    \/ AudioCallback
    \/ MsgTake
    \/ MsgLock
    \/ MsgRemove
    \/ MsgSend
    \/ UserReceive

SpecLock == InitLock /\ [][NextLock]_vars

\* the control thread and the message thread run: a call which holds the
\* lock goes on, the message thread takes the lock when it is free and
\* goes on when it holds it
SpecLockFair ==
    /\ InitLock
    /\ [][NextLock]_vars
    /\ WF_vars(ControlRun)
    /\ WF_vars(MsgLock)
    /\ WF_vars(MsgRemove)

\* the thread which holds the lock can go on and release it
HolderCanRun ==
    /\ lock.holder \in {"none", "control", "messages"}
    /\ lock.holder = "control" => ENABLED ControlRun
    /\ lock.holder = "messages" => ENABLED MsgRemove

\* C39: the audio thread never takes the lock of the map, its callback
\* runs whoever holds or awaits the lock; the thread which holds the lock,
\* control or messages, can always go on, so that the lock is released and
\* the message thread which awaits it gets it: there is no deadlock
C39_LockNeverBlocks ==
    /\ []HolderCanRun
    /\ [][sink_pos' # sink_pos => lock' = lock]_vars
    /\ (lock.holder # "none") ~> (lock.holder = "none")
    /\ (lock.msg = "lock") ~> (lock.msg = "forward")

\* a callback has run while the control thread holds the lock and the
\* message thread awaits it, a Stopped event in its hands and the user's
\* channel full
C39_Witness ==
    /\ lock.holder = "control"
    /\ lock.msg = "lock"
    /\ Len(user_chan) = UserChanCapacity
    /\ prev_write = [kind |-> "callback", holder |-> "control", msg |-> "lock"]

\* ------------------------------------------------------------------------
\* The preloaded source's buffer position and the frames of its buffer
\* ------------------------------------------------------------------------

\* the position is the first sample of a frame, or the end of the buffer
OnFrameBoundary(s) ==
    /\ s.buffer_pos % s.buffer_channel_count = 0
    /\ s.buffer_pos \in 0..s.buffer_len

\* the last write filled an output buffer of whole frames
WroteWholeFrames ==
    /\ prev_write.kind = "write"
    /\ prev_write.len % prev_write.s.buffer_channel_count = 0

\* a Seek is waiting for the source
SeekWaiting(s) == \E i \in 1..Len(s.msgs) : s.msgs[i].type = "Seek"

\* C40 as stated: for a preloaded source with channel count c, buffer_pos
\* is a multiple of c and lies within [0, buffer_len] after construction
\* and stays so after every write of whole frames, every repeat wrap and a
\* Seek to an arbitrary Duration which the write handles, so that playback
\* always starts on a frame boundary.
C40_BufferPosOnFrame ==
    /\ src.kind = "preloaded" => OnFrameBoundary(src)
    /\ [][(src.kind = "preloaded" /\ OnFrameBoundary(src) /\ WroteWholeFrames')
            => OnFrameBoundary(src')]_vars

\* C40, the part about the range alone: buffer_pos lies within
\* [0, buffer_len] before and after the source's messages are handled
BufferPosWithinBuffer ==
    src.kind = "preloaded" =>
        /\ src.buffer_pos \in 0..src.buffer_len
        /\ PreloadedDrainMsgs(src).buffer_pos \in 0..src.buffer_len

\* C40, the part about the frame without a Seek: a write of whole frames
\* which handles no Seek leaves buffer_pos on a frame boundary, a repeat
\* wrap included
NoSeekOnFrameBoundary ==
    [][(/\ src.kind = "preloaded"
        /\ OnFrameBoundary(src)
        /\ ~SeekWaiting(src)
        /\ WroteWholeFrames')
       => OnFrameBoundary(src')]_vars
====
